---- MODULE Spec2Model ----
(***************************************************************************)
(* MonteCarloMembraneBarostatImpl (OpenMM): the Monte Carlo membrane       *)
(* barostat's control algorithm, and the reference Drude kernel factory.   *)
(*                                                                         *)
(* C++ doubles are modelled bit for bit as IEEE 754 binary64 numbers: a    *)
(* sign, a mantissa of 53 bits and an exponent, with the subnormal         *)
(* numbers, the two zeros, the infinities and NaN.  +, -, *, /, sqrt and   *)
(* the fused multiply-add round their exact result to the nearest double,  *)
(* ties to even.  std::log and std::exp are the GNU C library's.  Each     *)
(* operation is a function (AddOf, MulOf, ...) behind an operator of the   *)
(* operation's name, so that an operand is evaluated once.                 *)
(***************************************************************************)
EXTENDS Integers, Sequences, FiniteSets, TLC

(***************************************************************************)
(* double arithmetic                                                       *)
(***************************************************************************)
\* a double is (-1)^neg * (hi * 2^28 + lo) * 2^e: the 53 bits of its mantissa
\* in two limbs.  A normal double has 2^24 <= hi < 2^25; a subnormal double
\* and a zero have e = EMin and hi < 2^24; the infinities have e = EInf and
\* the mantissa 0, NaN has e = EInf and the mantissa 1.
Double == [neg : BOOLEAN, hi : Nat, lo : Nat, e : Int]
Limb == 2^28
HalfLimb == 2^14
Two24 == 2^24
\* the exponent that marks NaN and the infinities
EInf == 2^11
\* the exponent of the largest doubles (below 2^1024) and of the smallest
\* (the multiples of 2^-1074)
EMax == 971
EMin == -1074

Plus(hi, lo, e) == [neg |-> FALSE, hi |-> hi, lo |-> lo, e |-> e]
Minus(hi, lo, e) == [neg |-> TRUE, hi |-> hi, lo |-> lo, e |-> e]

Zero == Plus(0, 0, EMin)
PInf == Plus(0, 0, EInf)
NInf == Minus(0, 0, EInf)
NaN == Plus(0, 1, EInf)
One == Plus(Two24, 0, -52)
Half == Plus(Two24, 0, -53)

IsNaN(a) == a = NaN
IsInf(a) == a = PInf \/ a = NInf
IsFin(a) == a.e # EInf
IsZero(a) == a.e = EMin /\ a.hi = 0 /\ a.lo = 0

SignedZero(neg) == IF neg THEN Minus(0, 0, EMin) ELSE Zero
Infinity(neg) == IF neg THEN NInf ELSE PInf

Greater(m, n) == IF m >= n THEN m ELSE n

\* a natural number below 2^112: four limbs of 28 bits, the least first
Wide == Int \X Int \X Int \X Int

\* the limbs brought back into 0 .. 2^28 - 1 after an addition or a subtraction
Carried[x \in Wide] ==
    <<x[1] % Limb,
      (x[2] + x[1] \div Limb) % Limb,
      (x[3] + (x[2] + x[1] \div Limb) \div Limb) % Limb,
      x[4] + (x[3] + (x[2] + x[1] \div Limb) \div Limb) \div Limb>>

\* x - y, less one when borrow
WSub(x, y, borrow) ==
    Carried[<<x[1] - y[1] - (IF borrow THEN 1 ELSE 0), x[2] - y[2], x[3] - y[3],
              x[4] - y[4]>>]
WLt(x, y) ==
    \/ x[4] < y[4]
    \/ x[4] = y[4] /\ x[3] < y[3]
    \/ x[4] = y[4] /\ x[3] = y[3] /\ x[2] < y[2]
    \/ x[4] = y[4] /\ x[3] = y[3] /\ x[2] = y[2] /\ x[1] < y[1]

At(w, i) == IF i >= 1 /\ i <= 4 THEN w[i] ELSE 0
\* limb i of w * 2^n and of w \div 2^n
ShlLimb(w, n, i) ==
    (At(w, i - n \div 28) % 2^(28 - (n % 28))) * 2^(n % 28)
    + At(w, i - n \div 28 - 1) \div 2^(28 - (n % 28))
ShrLimb(w, n, i) ==
    At(w, i + n \div 28) \div 2^(n % 28)
    + (At(w, i + n \div 28 + 1) % 2^(n % 28)) * 2^(28 - (n % 28))
ShlW[w \in Wide, n \in Nat] ==
    <<ShlLimb(w, n, 1), ShlLimb(w, n, 2), ShlLimb(w, n, 3), ShlLimb(w, n, 4)>>
ShrW[w \in Wide, n \in Nat] ==
    <<ShrLimb(w, n, 1), ShrLimb(w, n, 2), ShrLimb(w, n, 3), ShrLimb(w, n, 4)>>
\* whether w \div 2^n drops a bit that is set
Dropped[w \in Wide, n \in Nat] ==
    \/ \E i \in 1 .. 4 : i <= n \div 28 /\ w[i] # 0
    \/ At(w, n \div 28 + 1) % 2^(n % 28) # 0

\* the number of bits of x < 2^(2k), found by halving k from 16
BitsOf[x \in Nat, k \in Nat] ==
    IF k = 0 THEN x
    ELSE IF x >= 2^k THEN k + BitsOf[x \div 2^k, k \div 2]
    ELSE BitsOf[x, k \div 2]
WBits[w \in Wide] ==
    IF w[4] # 0 THEN 84 + BitsOf[w[4], 16]
    ELSE IF w[3] # 0 THEN 56 + BitsOf[w[3], 16]
    ELSE IF w[2] # 0 THEN 28 + BitsOf[w[2], 16]
    ELSE BitsOf[w[1], 16]

\* the double of a mantissa below 2^53 and an exponent from EMin: overflow
\* gives an infinity
Pack[neg \in BOOLEAN, hi \in Nat, lo \in Nat, e \in Int] ==
    IF hi = 0 /\ lo = 0 THEN SignedZero(neg)
    ELSE IF e > EMax THEN Infinity(neg)
    ELSE [neg |-> neg, hi |-> hi, lo |-> lo, e |-> e]

\* round to nearest, ties to even: q2 is the mantissa with one more bit
\* below it, st says whether anything lies below that bit
Rounded[neg \in BOOLEAN, q2 \in Wide, e \in Int, st \in BOOLEAN] ==
    LET lo == (q2[2] % 2) * 2^27 + q2[1] \div 2
        hi == q2[2] \div 2
        up == q2[1] % 2 = 1 /\ (st \/ lo % 2 = 1)
    IN  IF ~up THEN Pack[neg, hi, lo, e]
        ELSE IF lo + 1 < Limb THEN Pack[neg, hi, lo + 1, e]
        ELSE IF hi + 1 < 2 * Two24 THEN Pack[neg, hi + 1, 0, e]
        ELSE Pack[neg, Two24, 0, e + 1]

\* sh is the number of low bits of w that do not fit: the bits beyond 53, or
\* more when the exponent would fall below EMin (a subnormal result)
RoundAt[neg \in BOOLEAN, w \in Wide, e \in Int, sticky \in BOOLEAN, sh \in Int] ==
    IF w = <<0, 0, 0, 0>> THEN SignedZero(neg)
    ELSE IF sh <= 0 THEN Pack[neg, ShlLimb(w, -sh, 2), ShlLimb(w, -sh, 1), e + sh]
    ELSE Rounded[neg, ShrW[w, sh - 1], e + sh, sticky \/ Dropped[w, sh - 1]]

\* the double nearest to (-1)^neg * (w + f) * 2^e, where 0 <= f < 1 and f > 0
\* exactly when sticky; sticky comes with at least 55 bits of w or with e
\* two below EMin
Round[neg \in BOOLEAN, w \in Wide, e \in Int, sticky \in BOOLEAN] ==
    RoundAt[neg, w, e, sticky, Greater(WBits[w] - 53, EMin - e)]

\* the conversion of an int to double
ToDouble(n) ==
    IF n < 0 THEN Round[TRUE, <<(-n) % Limb, (-n) \div Limb, 0, 0>>, 0, FALSE]
    ELSE Round[FALSE, <<n % Limb, n \div Limb, 0, 0>>, 0, FALSE]

\* the conversion of a double to float, for the normal floats: the mantissa
\* rounded to 24 bits
ToFloat[a \in Double] ==
    LET top == a.hi \div 2
        up  == a.hi % 2 = 1 /\ (a.lo # 0 \/ top % 2 = 1)
    IN  IF ~up THEN [a EXCEPT !.hi = 2 * top, !.lo = 0]
        ELSE IF top + 1 < Two24 THEN [a EXCEPT !.hi = 2 * (top + 1), !.lo = 0]
        ELSE [a EXCEPT !.hi = Two24, !.lo = 0, !.e = @ + 1]

\* a < b: false when either is NaN, and for the two zeros
LtOf[a \in Double, b \in Double] ==
    /\ ~IsNaN(a) /\ ~IsNaN(b)
    /\ ~(IsZero(a) /\ IsZero(b))
    /\ IF a.neg # b.neg THEN a.neg
       ELSE IF a.neg
            THEN b.e < a.e \/ (b.e = a.e /\ (b.hi < a.hi \/ (b.hi = a.hi /\ b.lo < a.lo)))
            ELSE a.e < b.e \/ (a.e = b.e /\ (a.hi < b.hi \/ (a.hi = b.hi /\ a.lo < b.lo)))
Lt(a, b) == LtOf[a, b]
Gt(a, b) == LtOf[b, a]

NegOf[a \in Double] == IF IsNaN(a) THEN a ELSE [a EXCEPT !.neg = ~a.neg]
Neg(a) == NegOf[a]

Mantissa(a) == <<a.lo, a.hi, 0, 0>>

\* the sum of two numbers brought to the exponent g; xs (cs) says that x (c)
\* lost a fraction on the way, which only one of them does
Combined[xneg \in BOOLEAN, x \in Wide, xs \in BOOLEAN, cneg \in BOOLEAN, c \in Wide, cs \in BOOLEAN, g \in Int] ==
    IF xneg = cneg THEN Round[xneg, Carried[<<x[1] + c[1], x[2] + c[2], x[3] + c[3], x[4] + c[4]>>], g, xs \/ cs]
    ELSE IF WLt(c, x) \/ (x = c /\ xs) THEN Round[xneg, WSub(x, c, cs), g, xs \/ cs]
    ELSE IF WLt(x, c) \/ cs THEN Round[cneg, WSub(c, x, xs), g, xs \/ cs]
    ELSE Zero

Aligned[xneg \in BOOLEAN, x \in Wide, ex \in Int, cneg \in BOOLEAN, c \in Wide, ec \in Int, g \in Int] ==
    Combined[xneg, IF ex >= g THEN ShlW[x, ex - g] ELSE ShrW[x, g - ex],
             ex < g /\ Dropped[x, g - ex],
             cneg, IF ec >= g THEN ShlW[c, ec - g] ELSE ShrW[c, g - ec],
             ec < g /\ Dropped[c, g - ec], g]

\* the double nearest to the sum of x * 2^ex, a mantissa or a product of two,
\* and c * 2^ec, a mantissa, neither of them 0.  The one of the larger
\* exponent is shifted up, by 58 bits at most under c and by 5 at most under
\* x, and the other one down.
SumOf[xneg \in BOOLEAN, x \in Wide, ex \in Int, cneg \in BOOLEAN, c \in Wide, ec \in Int] ==
    Aligned[xneg, x, ex, cneg, c, ec,
            IF ec >= ex THEN Greater(ex, ec - 58) ELSE Greater(ec, ex - 5)]

AddOf[a \in Double, b \in Double] ==
    IF IsNaN(a) \/ IsNaN(b) THEN NaN
    ELSE IF IsInf(a) THEN (IF IsInf(b) /\ a # b THEN NaN ELSE a)
    ELSE IF IsInf(b) THEN b
    ELSE IF IsZero(a) THEN (IF IsZero(b) /\ a # b THEN Zero ELSE b)
    ELSE IF IsZero(b) THEN a
    ELSE SumOf[a.neg, Mantissa(a), a.e, b.neg, Mantissa(b), b.e]
Add(a, b) == AddOf[a, b]
Sub(a, b) == AddOf[a, NegOf[b]]

\* the product of two mantissas, from their halves of 14 bits
Halves(a) == <<a.lo % HalfLimb, a.lo \div HalfLimb, a.hi % HalfLimb, a.hi \div HalfLimb>>
Columns[p \in Wide, q \in Wide] ==
    <<p[1] * q[1],
      p[1] * q[2] + p[2] * q[1],
      p[1] * q[3] + p[2] * q[2] + p[3] * q[1],
      p[1] * q[4] + p[2] * q[3] + p[3] * q[2] + p[4] * q[1],
      p[2] * q[4] + p[3] * q[3] + p[4] * q[2],
      p[3] * q[4] + p[4] * q[3],
      p[4] * q[4]>>
Gathered[c \in Seq(Int)] ==
    Carried[<<c[1] + (c[2] % HalfLimb) * HalfLimb,
              c[2] \div HalfLimb + c[3] + (c[4] % HalfLimb) * HalfLimb,
              c[4] \div HalfLimb + c[5] + (c[6] % HalfLimb) * HalfLimb,
              c[6] \div HalfLimb + c[7]>>]
Product(a, b) == Gathered[Columns[Halves(a), Halves(b)]]

MulOf[a \in Double, b \in Double] ==
    IF IsNaN(a) \/ IsNaN(b) THEN NaN
    ELSE IF IsInf(a) \/ IsInf(b)
         THEN (IF IsZero(a) \/ IsZero(b) THEN NaN ELSE Infinity(a.neg # b.neg))
    ELSE IF IsZero(a) \/ IsZero(b) THEN SignedZero(a.neg # b.neg)
    ELSE Round[a.neg # b.neg, Product(a, b), a.e + b.e, FALSE]
Mul(a, b) == MulOf[a, b]

\* a*b + c with one rounding, the fused multiply-add the C library computes with
FmaOf[a \in Double, b \in Double, c \in Double] ==
    IF IsNaN(a) \/ IsNaN(b) \/ IsNaN(c) THEN NaN
    ELSE IF IsInf(a) \/ IsInf(b)
         THEN (IF IsZero(a) \/ IsZero(b) THEN NaN
               ELSE IF IsInf(c) /\ c.neg # (a.neg # b.neg) THEN NaN
               ELSE Infinity(a.neg # b.neg))
    ELSE IF IsInf(c) THEN c
    ELSE IF IsZero(a) \/ IsZero(b)
         THEN (IF IsZero(c) /\ c.neg # (a.neg # b.neg) THEN Zero ELSE c)
    ELSE IF IsZero(c) THEN Round[a.neg # b.neg, Product(a, b), a.e + b.e, FALSE]
    ELSE SumOf[a.neg # b.neg, Product(a, b), a.e + b.e, c.neg, Mantissa(c), c.e]
Fma(a, b, c) == FmaOf[a, b, c]

\* the mantissa shifted up by sh, to 53 bits
Normal[a \in Double, sh \in Nat] ==
    [a EXCEPT !.hi = ShlLimb(Mantissa(a), sh, 2), !.lo = ShlLimb(Mantissa(a), sh, 1),
              !.e = a.e - sh]

\* long division, a bit at a time: q is the quotient so far, r the
\* remainder, n the number of bits to come
DivSteps[neg \in BOOLEAN, qh \in Nat, ql \in Nat, rh \in Nat, rl \in Nat, bh \in Nat, bl \in Nat, e \in Int, n \in Nat] ==
    IF n = 0 THEN Round[neg, <<ql, qh, 0, 0>>, e, rh # 0 \/ rl # 0]
    ELSE LET nh == 2 * rh + (2 * rl) \div Limb
             nl == (2 * rl) % Limb
         IN  IF nh > bh \/ (nh = bh /\ nl >= bl)
             THEN DivSteps[neg, 2 * qh + (2 * ql + 1) \div Limb, (2 * ql + 1) % Limb,
                           nh - bh - (IF nl < bl THEN 1 ELSE 0), (nl - bl) % Limb,
                           bh, bl, e, n - 1]
             ELSE DivSteps[neg, 2 * qh + (2 * ql) \div Limb, (2 * ql) % Limb,
                           nh, nl, bh, bl, e, n - 1]

\* the quotient of two mantissas of 53 bits, to 55 bits below its first
Quotient[neg \in BOOLEAN, a \in Double, b \in Double] ==
    IF a.hi > b.hi \/ (a.hi = b.hi /\ a.lo >= b.lo)
    THEN DivSteps[neg, 0, 1, a.hi - b.hi - (IF a.lo < b.lo THEN 1 ELSE 0),
                  (a.lo - b.lo) % Limb, b.hi, b.lo, a.e - b.e - 55, 55]
    ELSE DivSteps[neg, 0, 0, a.hi, a.lo, b.hi, b.lo, a.e - b.e - 55, 55]

DivOf[a \in Double, b \in Double] ==
    IF IsNaN(a) \/ IsNaN(b) THEN NaN
    ELSE IF IsInf(a) THEN (IF IsInf(b) THEN NaN ELSE Infinity(a.neg # b.neg))
    ELSE IF IsInf(b) THEN SignedZero(a.neg # b.neg)
    ELSE IF IsZero(b) THEN (IF IsZero(a) THEN NaN ELSE Infinity(a.neg # b.neg))
    ELSE IF IsZero(a) THEN SignedZero(a.neg # b.neg)
    ELSE Quotient[a.neg # b.neg, Normal[a, 53 - WBits[Mantissa(a)]], Normal[b, 53 - WBits[Mantissa(b)]]]
Div(a, b) == DivOf[a, b]

\* std::min(a, b)
Min(a, b) == IF Lt(b, a) THEN b ELSE a

Two == ToDouble(2)
Three == ToDouble(3)
\* the double of the decimal literal n/d
Dec(n, d) == Div(ToDouble(n), ToDouble(d))
OneHundredth == Dec(1, 100)
OnePointOne == Dec(11, 10)
ThreeTenths == Dec(3, 10)
Quarter == Dec(1, 4)
ThreeQuarters == Dec(3, 4)

\* the square root, a bit at a time: m holds the bits of the radicand still
\* to come (54 bits, taken two at a time from the top), r is the root so far
\* and rem the remainder
SqrtSteps[mh \in Nat, ml \in Nat, rh \in Nat, rl \in Nat, remh \in Nat, reml \in Nat, e \in Int, n \in Nat] ==
    IF n = 0 THEN Round[FALSE, <<rl, rh, 0, 0>>, e, remh # 0 \/ reml # 0]
    ELSE LET xl  == 4 * (reml % 2^26) + mh \div 2^24
             xh  == 4 * remh + reml \div 2^26
             tl  == 4 * (rl % 2^26) + 1
             th  == 4 * rh + rl \div 2^26
             nmh == (mh % 2^24) * 4 + ml \div 2^26
             nml == (ml % 2^26) * 4
         IN  IF xh > th \/ (xh = th /\ xl >= tl)
             THEN SqrtSteps[nmh, nml, 2 * rh + (2 * rl + 1) \div Limb, (2 * rl + 1) % Limb,
                            xh - th - (IF xl < tl THEN 1 ELSE 0), (xl - tl) % Limb, e, n - 1]
             ELSE SqrtSteps[nmh, nml, 2 * rh + (2 * rl) \div Limb, (2 * rl) % Limb,
                            xh, xl, e, n - 1]

\* the root of a mantissa of 53 bits, its exponent made even first
Root[a \in Double] ==
    IF a.e % 2 = 0
    THEN SqrtSteps[a.hi, a.lo, 0, 0, 0, 0, a.e \div 2 - 28, 55]
    ELSE SqrtSteps[2 * a.hi + (2 * a.lo) \div Limb, (2 * a.lo) % Limb, 0, 0, 0, 0,
                   (a.e - 1) \div 2 - 28, 55]

SqrtOf[a \in Double] ==
    IF IsNaN(a) THEN NaN
    ELSE IF IsZero(a) THEN a
    ELSE IF a.neg THEN NaN
    ELSE IF IsInf(a) THEN a
    ELSE Root[Normal[a, 53 - WBits[Mantissa(a)]]]
Sqrt(a) == SqrtOf[a]

(***************************************************************************)
(* std::log and std::exp, as the GNU C library 2.36 computes them on an    *)
(* x86-64 processor with fused multiply-add: the function is reduced to a  *)
(* polynomial near a table entry, every step being one rounded operation.  *)
(* The tables are the library's __log_data and __exp_data.                 *)
(***************************************************************************)
\* ln 2 in two parts, and the coefficients of the two polynomials of log
LogLn2 == <<Plus(23258159, 251279360, -53), Plus(32454009, 63399728, -97)>>
LogPoly ==
    <<Minus(16777216, 1, -53), Plus(22369621, 89206875, -54),
      Minus(33554431, 267077008, -55), Plus(26843954, 82903313, -55),
      Minus(22370142, 84330655, -55)>>
LogPoly1 ==
    <<Minus(16777216, 0, -53), Plus(22369621, 89478519, -54),
      Minus(33554431, 268434891, -55), Plus(26843545, 160816396, -55),
      Minus(22369621, 90654119, -55), Plus(19173962, 54844976, -55),
      Minus(33554426, 71449957, -56), Plus(29825090, 137025226, -56),
      Minus(26844852, 61892863, -56), Plus(24647727, 128962693, -56),
      Minus(22356279, 97600973, -56)>>
\* 1/c and log(c) for 128 values c from 0.6875 to 1.375
LogTab ==
    <<<<Plus(24334092, 65068703, -52), Minus(24954871, 166105088, -54)>>,
      <<Plus(24196998, 170715423, -52), Minus(24575724, 34406400, -54)>>,
      <<Plus(24061440, 150648224, -52), Minus(24198705, 55697408, -54)>>,
      <<Plus(23927393, 252939389, -52), Minus(23823795, 136869888, -54)>>,
      <<Plus(23794832, 197506257, -52), Minus(23450969, 8419328, -54)>>,
      <<Plus(23663731, 53415098, -52), Minus(23080199, 102236160, -54)>>,
      <<Plus(23534065, 136462883, -52), Minus(22711464, 110137344, -54)>>,
      <<Plus(23405817, 161816281, -52), Minus(22344757, 100880384, -54)>>,
      <<Plus(23278954, 177153220, -52), Minus(21980028, 57360384, -54)>>,
      <<Plus(23153462, 194894868, -52), Minus(21617279, 229134336, -54)>>,
      <<Plus(23029317, 46554188, -52), Minus(21256483, 160016384, -54)>>,
      <<Plus(22906491, 93400143, -52), Minus(20897603, 162576384, -54)>>,
      <<Plus(22784972, 190550238, -52), Minus(20540644, 76509184, -54)>>,
      <<Plus(22664735, 47782520, -52), Minus(20185569, 129867776, -54)>>,
      <<Plus(22545761, 38164103, -52), Minus(19832366, 256278528, -54)>>,
      <<Plus(22428028, 250047443, -52), Minus(19481011, 137420800, -54)>>,
      <<Plus(22311518, 44531603, -52), Minus(19131480, 215648256, -54)>>,
      <<Plus(22196212, 33965443, -52), Minus(18783762, 153587712, -54)>>,
      <<Plus(22082093, 196263391, -52), Minus(18437842, 189331456, -54)>>,
      <<Plus(21969140, 120905431, -52), Minus(18093689, 179959808, -54)>>,
      <<Plus(21857340, 266217536, -52), Minus(17751305, 82810880, -54)>>,
      <<Plus(21746668, 7906248, -52), Minus(17410641, 148574208, -54)>>,
      <<Plus(21637116, 65021322, -52), Minus(17071717, 40089600, -54)>>,
      <<Plus(21528658, 81036340, -52), Minus(33468964, 92729344, -55)>>,
      <<Plus(21421281, 186199307, -52), Minus(32797863, 85438464, -55)>>,
      <<Plus(21314973, 54073428, -52), Minus(32130115, 219164672, -55)>>,
      <<Plus(21209716, 78939226, -52), Minus(31465684, 82423808, -55)>>,
      <<Plus(21105492, 18217211, -52), Minus(30804514, 158855168, -55)>>,
      <<Plus(21002285, 171898033, -52), Minus(30146576, 76910592, -55)>>,
      <<Plus(20900085, 223870607, -52), Minus(29491861, 109645824, -55)>>,
      <<Plus(20798874, 740585, -52), Minus(28840312, 226562048, -55)>>,
      <<Plus(20698636, 1098027, -52), Minus(28191900, 215207936, -55)>>,
      <<Plus(20599362, 192273080, -52), Minus(27546626, 236097536, -55)>>,
      <<Plus(20501036, 228577282, -52), Minus(26904438, 136179712, -55)>>,
      <<Plus(20403644, 92568092, -52), Minus(26265302, 155725824, -55)>>,
      <<Plus(20307172, 162346722, -52), Minus(25629194, 105234432, -55)>>,
      <<Plus(20211609, 139318336, -52), Minus(24996091, 68431872, -55)>>,
      <<Plus(20116940, 251644708, -52), Minus(24365955, 207777792, -55)>>,
      <<Plus(20023159, 94440777, -52), Minus(23738793, 188178432, -55)>>,
      <<Plus(19930243, 121518480, -52), Minus(23114517, 79142912, -55)>>,
      <<Plus(19838187, 194377793, -52), Minus(22493143, 103034880, -55)>>,
      <<Plus(19746976, 35236305, -52), Minus(21874616, 264384512, -55)>>,
      <<Plus(19656602, 146275626, -52), Minus(21258949, 30539776, -55)>>,
      <<Plus(19567047, 168565675, -52), Minus(20646059, 209911808, -55)>>,
      <<Plus(19478310, 1357104, -52), Minus(20035990, 189333504, -55)>>,
      <<Plus(19390373, 123183605, -52), Minus(19428681, 10764288, -55)>>,
      <<Plus(19303225, 186465215, -52), Minus(18824095, 142188544, -55)>>,
      <<Plus(19216856, 59766205, -52), Minus(18222210, 86810624, -55)>>,
      <<Plus(19131258, 180947003, -52), Minus(17623029, 133636096, -55)>>,
      <<Plus(19046418, 195641526, -52), Minus(17026500, 167682048, -55)>>,
      <<Plus(18962329, 114049330, -52), Minus(32865243, 206274560, -56)>>,
      <<Plus(18878977, 231931035, -52), Minus(31682697, 104873984, -56)>>,
      <<Plus(18796356, 156059659, -52), Minus(30505347, 251215872, -56)>>,
      <<Plus(18714453, 42952041, -52), Minus(29333108, 249077760, -56)>>,
      <<Plus(18633265, 22511228, -52), Minus(28166034, 3104768, -56)>>,
      <<Plus(18552775, 80422633, -52), Minus(27003966, 120094720, -56)>>,
      <<Plus(18472976, 204217014, -52), Minus(25846891, 57851904, -56)>>,
      <<Plus(18393863, 196505789, -52), Minus(24694811, 61603840, -56)>>,
      <<Plus(18315426, 99597494, -52), Minus(23547668, 87556096, -56)>>,
      <<Plus(18237651, 88879578, -52), Minus(22405350, 226983936, -56)>>,
      <<Plus(18160537, 2580445, -52), Minus(21267917, 245489664, -56)>>,
      <<Plus(18084074, 70439500, -52), Minus(20135316, 225091584, -56)>>,
      <<Plus(18008247, 34666970, -52), Minus(19007391, 147152896, -56)>>,
      <<Plus(17933058, 149730609, -52), Minus(17884265, 140648448, -56)>>,
      <<Plus(17858493, 176436399, -52), Minus(33531590, 181534720, -57)>>,
      <<Plus(17784544, 256797619, -52), Minus(31303892, 175587328, -57)>>,
      <<Plus(17711205, 220897230, -52), Minus(29085390, 75825152, -57)>>,
      <<Plus(17638470, 53257505, -52), Minus(26876052, 1228800, -57)>>,
      <<Plus(17566327, 216176666, -52), Minus(24675715, 50511872, -57)>>,
      <<Plus(17494776, 63321809, -52), Minus(22484454, 131497984, -57)>>,
      <<Plus(17423801, 144708409, -52), Minus(20301988, 157646848, -57)>>,
      <<Plus(17353402, 257091551, -52), Minus(18128438, 68501504, -57)>>,
      <<Plus(17283570, 256780539, -52), Minus(31927304, 48988160, -58)>>,
      <<Plus(17214296, 204836633, -52), Minus(27614997, 38961152, -58)>>,
      <<Plus(17145578, 99416364, -52), Minus(23320108, 260145152, -58)>>,
      <<Plus(17077404, 231812240, -52), Minus(19042232, 212467712, -58)>>,
      <<Plus(17009772, 116436393, -52), Minus(29562802, 16318464, -59)>>,
      <<Plus(16942673, 58274473, -52), Minus(21074773, 229244928, -59)>>,
      <<Plus(16876098, 132805448, -52), Minus(25239612, 49020928, -60)>>,
      <<Plus(16810048, 102019477, -52), Minus(16793751, 153354240, -61)>>,
      <<Plus(33423871, 119994906, -53), Plus(33488696, 76546048, -61)>>,
      <<Plus(33165772, 39971444, -53), Plus(25019411, 87883776, -59)>>,
      <<Plus(32911627, 8493358, -53), Plus(20769340, 79855616, -58)>>,
      <<Plus(32661347, 216968653, -53), Plus(28965905, 76087296, -58)>>,
      <<Plus(32414848, 59839463, -53), Plus(18550156, 235995136, -57)>>,
      <<Plus(32172039, 147567019, -53), Plus(22586813, 114688, -57)>>,
      <<Plus(31932842, 43846811, -53), Plus(26593332, 14188544, -57)>>,
      <<Plus(31697176, 51026357, -53), Plus(30570158, 257392640, -57)>>,
      <<Plus(31464960, 157325910, -53), Plus(17258894, 93896704, -56)>>,
      <<Plus(31236126, 91732888, -53), Plus(19218270, 51191808, -56)>>,
      <<Plus(31010592, 192712963, -53), Plus(21163480, 188219392, -56)>>,
      <<Plus(30788294, 117136590, -53), Plus(23094680, 123191296, -56)>>,
      <<Plus(30569162, 173989533, -53), Plus(25012067, 90832896, -56)>>,
      <<Plus(30353123, 241904845, -53), Plus(26915892, 236740608, -56)>>,
      <<Plus(30140122, 44529922, -53), Plus(28806267, 185425920, -56)>>,
      <<Plus(29930086, 221710445, -53), Plus(30683443, 48701440, -56)>>,
      <<Plus(29722955, 224221188, -53), Plus(32547607, 31350784, -56)>>,
      <<Plus(29518675, 62627724, -53), Plus(17199442, 194068480, -55)>>,
      <<Plus(29317182, 250406719, -53), Plus(18118744, 43167744, -55)>>,
      <<Plus(29118423, 98277057, -53), Plus(19031788, 231354368, -55)>>,
      <<Plus(28922336, 210127400, -53), Plus(19938682, 113594368, -55)>>,
      <<Plus(28728876, 99565100, -53), Plus(20839475, 204673024, -55)>>,
      <<Plus(28537990, 130648203, -53), Plus(21734246, 192577536, -55)>>,
      <<Plus(28349618, 18690122, -53), Plus(22623122, 147976192, -55)>>,
      <<Plus(28163720, 99807102, -53), Plus(23506130, 68743168, -55)>>,
      <<Plus(27980243, 23084450, -53), Plus(24383374, 208048128, -55)>>,
      <<Plus(27799139, 265509031, -53), Plus(25254927, 85651456, -55)>>,
      <<Plus(27620366, 252277643, -53), Plus(26120853, 83263488, -55)>>,
      <<Plus(27443881, 11225895, -53), Plus(26981216, 49823744, -55)>>,
      <<Plus(27269633, 60027601, -53), Plus(27836113, 204210176, -55)>>,
      <<Plus(27097586, 81476635, -53), Plus(28685589, 201445376, -55)>>,
      <<Plus(26927696, 96973200, -53), Plus(29529724, 213696512, -55)>>,
      <<Plus(26759919, 43503151, -53), Plus(30368605, 88629248, -55)>>,
      <<Plus(26594222, 245648245, -53), Plus(31202259, 71745536, -55)>>,
      <<Plus(26430569, 233261112, -53), Plus(32030747, 147841024, -55)>>,
      <<Plus(26268914, 258429670, -53), Plus(32854172, 1544192, -55)>>,
      <<Plus(26109224, 251647901, -53), Plus(16836289, 35633152, -54)>>,
      <<Plus(25951465, 265027708, -53), Plus(17243008, 244568064, -54)>>,
      <<Plus(25795597, 180273934, -53), Plus(17647289, 243691520, -54)>>,
      <<Plus(25641594, 170072059, -53), Plus(18049139, 55300096, -54)>>,
      <<Plus(25489418, 213096968, -53), Plus(18448598, 119752704, -54)>>,
      <<Plus(25339038, 140852821, -53), Plus(18845694, 13402112, -54)>>,
      <<Plus(25190425, 99877472, -53), Plus(19240445, 123955200, -54)>>,
      <<Plus(25043542, 65053481, -53), Plus(19632896, 152348672, -54)>>,
      <<Plus(24898359, 131904941, -53), Plus(20023073, 4415488, -54)>>,
      <<Plus(24754854, 127346114, -53), Plus(20410982, 233576448, -54)>>,
      <<Plus(24612991, 35063383, -53), Plus(20796671, 196030464, -54)>>,
      <<Plus(24472749, 198578956, -53), Plus(21180142, 53469184, -54)>>>>
\* 128/ln 2, 1.5 * 2^52, -ln 2/128 in two parts, and the coefficients of exp
ExpData ==
    <<Plus(24204406, 86737662, -45), Plus(25165824, 0, 0),
      Minus(23258159, 251265024, -60), Minus(30374315, 211696442, -99)>>
ExpPoly ==
    <<Plus(33554431, 268434877, -54), Plus(22369621, 89478204, -55),
      Plus(22369628, 253176721, -57), Plus(17895702, 128241687, -59)>>
\* for i in 0 .. 127: what 2^(i/128) lacks as a double, and 2^(i/128)
ExpTab ==
    <<<<Plus(0, 0, -1074), Plus(16777216, 0, -52)>>,
      <<Plus(28554481, 176734062, -106), Plus(16868314, 167457589, -52)>>,
      <<Minus(18219321, 215538781, -108), Plus(16959907, 242712673, -52)>>,
      <<Minus(17164193, 8873681, -106), Plus(17051998, 141459333, -52)>>,
      <<Plus(30221603, 90699283, -107), Plus(17144589, 51742068, -52)>>,
      <<Minus(29157378, 66686714, -107), Plus(17237682, 165541598, -52)>>,
      <<Plus(17790182, 31901793, -109), Plus(17331281, 141925320, -52)>>,
      <<Plus(17448517, 187945881, -106), Plus(17425388, 180810627, -52)>>,
      <<Plus(24750693, 226720621, -106), Plus(17520006, 217680143, -52)>>,
      <<Plus(32199081, 50196476, -107), Plus(17615138, 192038903, -52)>>,
      <<Plus(32236503, 3120337, -112), Plus(17710787, 47436194, -52)>>,
      <<Minus(27276104, 160460299, -109), Plus(17806954, 268358427, -52)>>,
      <<Minus(22373666, 170900750, -106), Plus(17903645, 1203025, -52)>>,
      <<Minus(17305336, 206498389, -110), Plus(18000860, 7090636, -52)>>,
      <<Minus(18649659, 165016598, -106), Plus(18098602, 245968352, -52)>>,
      <<Plus(17645118, 157046191, -107), Plus(18196876, 145067601, -52)>>,
      <<Minus(16888158, 178623304, -107), Plus(18295683, 209539451, -52)>>,
      <<Minus(32636677, 98447933, -107), Plus(18395027, 143429098, -52)>>,
      <<Plus(28874947, 252924863, -107), Plus(18494910, 191875957, -52)>>,
      <<Minus(23960007, 101837606, -106), Plus(18595336, 67394772, -52)>>,
      <<Plus(28233587, 238694240, -106), Plus(18696307, 23640490, -52)>>,
      <<Minus(33454124, 193345693, -107), Plus(18797826, 50125085, -52)>>,
      <<Plus(27718676, 78037901, -107), Plus(18899896, 140676310, -52)>>,
      <<Plus(17277019, 14943357, -107), Plus(19002521, 25025686, -52)>>,
      <<Plus(23654366, 61384852, -106), Plus(19105702, 242573880, -52)>>,
      <<Plus(24502671, 41175165, -107), Plus(19209444, 263366207, -52)>>,
      <<Plus(17068729, 136308722, -107), Plus(19313750, 98729181, -52)>>,
      <<Minus(23824307, 259065950, -106), Plus(19418622, 32859009, -52)>>,
      <<Plus(19889686, 218737457, -107), Plus(19524063, 85974753, -52)>>,
      <<Minus(30546353, 175095802, -112), Plus(19630077, 14342544, -52)>>,
      <<Plus(28538919, 34343604, -107), Plus(19736666, 115606283, -52)>>,
      <<Plus(31541544, 164547471, -109), Plus(19843834, 155070294, -52)>>,
      <<Plus(20240212, 229682102, -107), Plus(19951584, 171030293, -52)>>,
      <<Plus(23339038, 44856396, -107), Plus(20059919, 206362673, -52)>>,
      <<Plus(33411989, 231995466, -107), Plus(20168843, 40113919, -52)>>,
      <<Minus(23738371, 193878788, -107), Plus(20278357, 261267441, -52)>>,
      <<Minus(19181276, 206262376, -106), Plus(20388467, 121285067, -52)>>,
      <<Minus(26247041, 189869454, -106), Plus(20499174, 218486886, -52)>>,
      <<Minus(18685571, 244594386, -108), Plus(20610483, 82157559, -52)>>,
      <<Minus(26317211, 63838997, -106), Plus(20722396, 51620069, -52)>>,
      <<Plus(22672522, 120212589, -107), Plus(20834916, 202519586, -52)>>,
      <<Minus(19998215, 170420618, -106), Plus(20948048, 78413852, -52)>>,
      <<Minus(25852148, 135760219, -110), Plus(21061794, 32976426, -52)>>,
      <<Minus(29542838, 122264091, -108), Plus(21176157, 156280983, -52)>>,
      <<Plus(20332246, 12758033, -111), Plus(21291142, 6392109, -52)>>,
      <<Plus(23486611, 184968431, -106), Plus(21406750, 220004439, -52)>>,
      <<Plus(32296477, 178324345, -109), Plus(21522987, 96550096, -52)>>,
      <<Plus(20969699, 252645936, -106), Plus(21639855, 14144478, -52)>>,
      <<Plus(23661803, 192589744, -108), Plus(21757357, 87435815, -52)>>,
      <<Plus(20044766, 190111863, -106), Plus(21875497, 167632141, -52)>>,
      <<Minus(33112896, 7447438, -107), Plus(21994279, 110963879, -52)>>,
      <<Minus(25029837, 211002185, -107), Plus(22113706, 47146562, -52)>>,
      <<Minus(26078315, 219101279, -108), Plus(22233781, 110972802, -52)>>,
      <<Minus(23143534, 209411318, -107), Plus(22354508, 173904399, -52)>>,
      <<Plus(20140113, 150853518, -106), Plus(22475891, 112535514, -52)>>,
      <<Plus(28937074, 260741893, -108), Plus(22597933, 77055997, -52)>>,
      <<Plus(17186334, 35410953, -106), Plus(22720637, 222843945, -52)>>,
      <<Plus(21788757, 1689322, -112), Plus(22844008, 173622967, -52)>>,
      <<Plus(21180002, 191152181, -106), Plus(22968049, 95232328, -52)>>,
      <<Minus(30295206, 26834591, -107), Plus(23092763, 158784521, -52)>>,
      <<Minus(29572179, 200232360, -107), Plus(23218155, 3822981, -52)>>,
      <<Minus(21313416, 153872814, -107), Plus(23344227, 80528160, -52)>>,
      <<Minus(20770263, 139876440, -106), Plus(23470984, 39133733, -52)>>,
      <<Plus(24185512, 8264036, -110), Plus(23598429, 72132979, -52)>>,
      <<Minus(20659963, 257827368, -106), Plus(23726566, 109001677, -52)>>,
      <<Minus(27339480, 120895874, -109), Plus(23855399, 84662975, -52)>>,
      <<Minus(20348667, 141404654, -109), Plus(23984931, 207952431, -52)>>,
      <<Minus(17679317, 81823825, -107), Plus(24115167, 156341380, -52)>>,
      <<Minus(25294407, 240795343, -108), Plus(24246110, 149708660, -52)>>,
      <<Minus(24044716, 9141680, -107), Plus(24377764, 145064308, -52)>>,
      <<Minus(23171873, 240510602, -107), Plus(24510133, 105015241, -52)>>,
      <<Plus(17419445, 235525331, -106), Plus(24643220, 266231103, -52)>>,
      <<Minus(28519883, 156083485, -108), Plus(24777031, 65732999, -52)>>,
      <<Plus(21942229, 73908331, -106), Plus(24911568, 19972402, -52)>>,
      <<Plus(22986266, 198601813, -109), Plus(25046835, 114249314, -52)>>,
      <<Minus(25828434, 263442242, -107), Plus(25182837, 71178770, -52)>>,
      <<Minus(20355951, 20657972, -106), Plus(25319577, 156028435, -52)>>,
      <<Minus(17164355, 169475870, -107), Plus(25457060, 103008173, -52)>>,
      <<Minus(21841165, 141711214, -106), Plus(25595289, 189043437, -52)>>,
      <<Plus(17487477, 185502208, -106), Plus(25734269, 160065177, -52)>>,
      <<Plus(31159036, 32565940, -107), Plus(25874004, 36348123, -52)>>,
      <<Minus(22767113, 214296575, -109), Plus(26014497, 112542860, -52)>>,
      <<Plus(29321269, 166944580, -108), Plus(26155753, 152401718, -52)>>,
      <<Minus(19960314, 119422339, -106), Plus(26297776, 194117574, -52)>>,
      <<Minus(31103880, 191634985, -110), Plus(26440571, 13485541, -52)>>,
      <<Minus(29507479, 210811225, -109), Plus(26584140, 197677583, -52)>>,
      <<Minus(19149874, 49609130, -106), Plus(26728489, 266227280, -52)>>,
      <<Minus(22849229, 124161611, -107), Plus(26873623, 13240250, -52)>>,
      <<Plus(18546626, 194104871, -108), Plus(27019544, 44298384, -52)>>,
      <<Plus(31269726, 17462203, -109), Plus(27166257, 165880611, -52)>>,
      <<Minus(24924226, 39985763, -107), Plus(27313767, 190702949, -52)>>,
      <<Plus(28428398, 65155541, -107), Plus(27462078, 206187827, -52)>>,
      <<Minus(18595101, 62700309, -106), Plus(27611195, 37627229, -52)>>,
      <<Plus(17613593, 216936914, -106), Plus(27761121, 53523288, -52)>>,
      <<Plus(21403718, 242440883, -107), Plus(27911861, 91880895, -52)>>,
      <<Minus(19791065, 126786996, -107), Plus(28063419, 265548666, -52)>>,
      <<Plus(29468537, 46871431, -107), Plus(28215801, 156947373, -52)>>,
      <<Minus(17283316, 181524986, -106), Plus(28369010, 160282214, -52)>>,
      <<Minus(22822293, 115125946, -110), Plus(28523051, 139400699, -52)>>,
      <<Minus(17449187, 229045824, -106), Plus(28677928, 233134394, -52)>>,
      <<Minus(26046275, 145593140, -109), Plus(28833647, 50028103, -52)>>,
      <<Minus(18804262, 190351925, -106), Plus(28990211, 10552906, -52)>>,
      <<Plus(22019440, 174054861, -108), Plus(29147625, 4964818, -52)>>,
      <<Minus(18603967, 177379500, -106), Plus(29305893, 198647305, -52)>>,
      <<Plus(20376291, 11472051, -108), Plus(29465021, 226841244, -52)>>,
      <<Plus(32387877, 211811732, -107), Plus(29625013, 268423290, -52)>>,
      <<Plus(21891325, 17389996, -107), Plus(29785874, 240636235, -52)>>,
      <<Plus(20765427, 139336295, -109), Plus(29947609, 67561397, -52)>>,
      <<Plus(24556230, 210901352, -109), Plus(30110221, 217026665, -52)>>,
      <<Minus(17342856, 63747538, -107), Plus(30273717, 90031098, -52)>>,
      <<Minus(33215955, 268434031, -107), Plus(30438100, 168266108, -52)>>,
      <<Minus(16833251, 141928777, -106), Plus(30603376, 135105010, -52)>>,
      <<Plus(21641306, 104662951, -108), Plus(30769549, 217818247, -52)>>,
      <<Minus(19470818, 4203023, -107), Plus(30936625, 113869720, -52)>>,
      <<Plus(31827213, 96572076, -107), Plus(31104608, 64696965, -52)>>,
      <<Plus(21210522, 201419595, -107), Plus(31273503, 50443360, -52)>>,
      <<Minus(19747344, 129252895, -107), Plus(31443315, 58432351, -52)>>,
      <<Minus(26389395, 189205961, -107), Plus(31614049, 83206441, -52)>>,
      <<Plus(21717062, 3836115, -108), Plus(31785710, 126566390, -52)>>,
      <<Plus(20733637, 27095665, -107), Plus(31958303, 197610627, -52)>>,
      <<Minus(33517864, 265523696, -107), Plus(32131834, 44339418, -52)>>,
      <<Minus(31123854, 35878013, -107), Plus(32306306, 227436529, -52)>>,
      <<Plus(32259012, 27926536, -107), Plus(32481726, 241261095, -52)>>,
      <<Plus(21150028, 61467442, -107), Plus(32658099, 124500631, -52)>>,
      <<Plus(27675283, 30508526, -107), Plus(32835429, 191776064, -52)>>,
      <<Minus(31685550, 71033837, -107), Plus(33013722, 228376084, -52)>>,
      <<Plus(24679348, 227659165, -108), Plus(33192984, 27168984, -52)>>,
      <<Plus(19946516, 23121033, -110), Plus(33373218, 193950193, -52)>>>>


\* log(x) for 0.9375 <= x < 1.064697265625, a polynomial in r = x - 1.  The
\* computation is a list of steps, each a rounded operation on the values
\* before it; v holds the values so far, v[1] = r
LogNearOne[v \in Seq(Double)] ==
    CASE Len(v) = 1 -> LogNearOne[Append(v, Fma(v[1], LogPoly1[3], LogPoly1[2]))]  \* B[1] + r*B[2]
      [] Len(v) = 2 -> LogNearOne[Append(v, Fma(v[1], LogPoly1[6], LogPoly1[5]))]  \* B[4] + r*B[5]
      [] Len(v) = 3 -> LogNearOne[Append(v, Mul(v[1], v[1]))]  \* r2 = r*r
      [] Len(v) = 4 -> LogNearOne[Append(v, Fma(v[1], LogPoly1[9], LogPoly1[8]))]  \* B[7] + r*B[8]
      [] Len(v) = 5 -> LogNearOne[Append(v, Fma(v[4], LogPoly1[4], v[2]))]  \* ... + r2*B[3]
      [] Len(v) = 6 -> LogNearOne[Append(v, Fma(v[4], LogPoly1[7], v[3]))]  \* ... + r2*B[6]
      [] Len(v) = 7 -> LogNearOne[Append(v, Mul(v[1], v[4]))]  \* r3 = r*r2
      [] Len(v) = 8 -> LogNearOne[Append(v, Fma(v[4], LogPoly1[10], v[5]))]  \* ... + r2*B[9]
      [] Len(v) = 9 -> LogNearOne[Append(v, Fma(v[8], LogPoly1[11], v[9]))]  \* ... + r3*B[10]
      [] Len(v) = 10 -> LogNearOne[Append(v, Fma(v[10], v[8], v[7]))]  \* the polynomial, by powers of r3
      [] Len(v) = 11 -> LogNearOne[Append(v, Fma(v[11], v[8], v[6]))]  \* the polynomial
      [] Len(v) = 12 -> LogNearOne[Append(v, Fma(v[1], Plus(Two24, 0, -25), v[1]))]  \* r*2^27 + r
      [] Len(v) = 13 -> LogNearOne[Append(v, Fma(Minus(Two24, 0, -25), v[1], v[13]))]  \* rhi: the upper bits of r
      [] Len(v) = 14 -> LogNearOne[Append(v, Mul(v[14], v[14]))]  \* rhi*rhi
      [] Len(v) = 15 -> LogNearOne[Append(v, Sub(v[1], v[14]))]  \* rlo = r - rhi
      [] Len(v) = 16 -> LogNearOne[Append(v, Fma(v[15], LogPoly1[1], v[1]))]  \* hi = r + B[0]*rhi*rhi
      [] Len(v) = 17 -> LogNearOne[Append(v, Sub(v[1], v[17]))]  \* r - hi
      [] Len(v) = 18 -> LogNearOne[Append(v, Add(v[1], v[14]))]  \* r + rhi
      [] Len(v) = 19 -> LogNearOne[Append(v, Fma(v[15], LogPoly1[1], v[18]))]  \* lo, from rhi
      [] Len(v) = 20 -> LogNearOne[Append(v, Mul(LogPoly1[1], v[16]))]  \* B[0]*rlo
      [] Len(v) = 21 -> LogNearOne[Append(v, Fma(v[21], v[19], v[20]))]  \* lo
      [] Len(v) = 22 -> LogNearOne[Append(v, Fma(v[12], v[8], v[22]))]  \* y = lo + r3*polynomial
      [] OTHER -> Add(v[23], v[17])

\* log(z * 2^k) = k ln 2 + log(c) + log(z/c), a polynomial in r = z/c - 1;
\* v begins as <<k, z, 1/c, log(c)>>
LogSteps[v \in Seq(Double)] ==
    CASE Len(v) = 4 -> LogSteps[Append(v, Fma(v[1], LogLn2[1], v[4]))]  \* w = k*Ln2hi + log(c)
      [] Len(v) = 5 -> LogSteps[Append(v, Fma(v[2], v[3], Minus(Two24, 0, -52)))]  \* r = z/c - 1
      [] Len(v) = 6 -> LogSteps[Append(v, Fma(v[6], LogPoly[3], LogPoly[2]))]  \* A[1] + r*A[2]
      [] Len(v) = 7 -> LogSteps[Append(v, Add(v[6], v[5]))]  \* hi = w + r
      [] Len(v) = 8 -> LogSteps[Append(v, Mul(v[6], v[6]))]  \* r2 = r*r
      [] Len(v) = 9 -> LogSteps[Append(v, Add(Sub(v[5], v[8]), v[6]))]  \* lo = w - hi + r
      [] Len(v) = 10 -> LogSteps[Append(v, Fma(v[1], LogLn2[2], v[10]))]  \* lo + k*Ln2lo
      [] Len(v) = 11 -> LogSteps[Append(v, Mul(v[6], v[9]))]  \* r3 = r*r2
      [] Len(v) = 12 -> LogSteps[Append(v, Fma(v[6], LogPoly[5], LogPoly[4]))]  \* A[3] + r*A[4]
      [] Len(v) = 13 -> LogSteps[Append(v, Fma(v[9], LogPoly[1], v[11]))]  \* lo + r2*A[0]
      [] Len(v) = 14 -> LogSteps[Append(v, Fma(v[13], v[9], v[7]))]  \* the polynomial
      [] Len(v) = 15 -> LogSteps[Append(v, Fma(v[12], v[15], v[14]))]  \* y = lo + r2*A[0] + r3*polynomial
      [] OTHER -> Add(v[16], v[8])

\* x = z * 2^k with 0.6875 <= z < 1.375, and the table entry of z
LogReduced[n \in Double] ==
    IF n.hi >= 22 * 2^20
    THEN LogSteps[<<ToDouble(n.e + 53), Plus(n.hi, n.lo, -53)>>
                  \o LogTab[(n.hi - 22 * 2^20) \div 2^17 + 1]]
    ELSE LogSteps[<<ToDouble(n.e + 52), Plus(n.hi, n.lo, -52)>>
                  \o LogTab[(n.hi - 6 * 2^20) \div 2^17 + 1]]

LogOf[x \in Double] ==
    IF IsNaN(x) THEN NaN
    ELSE IF IsZero(x) THEN NInf
    ELSE IF x.neg THEN NaN
    ELSE IF IsInf(x) THEN x
    ELSE IF x = One THEN Zero
    ELSE IF ~Lt(x, Plus(15 * 2^21, 0, -53)) /\ Lt(x, Plus(4361 * 2^12, 0, -52))
         THEN LogNearOne[<<Sub(x, One)>>]
    ELSE LogReduced[Normal[x, 53 - WBits[Mantissa(x)]]]
Log(x) == LogOf[x]

\* the integer k of kd0 = k + 1.5 * 2^52, the multiple of ln 2/128 nearest to x
ExpK(kd0) == IF kd0.hi = 3 * 2^23 THEN kd0.lo ELSE kd0.lo - Limb
\* 2^(k/128) * 2^off, from the table
ExpScale(k, off) == [ExpTab[(k % 128) + 1][2] EXCEPT !.e = @ + (k \div 128) + off]

\* exp(x) = 2^(k/128) * exp(r), a polynomial in r = x - k ln 2/128; v begins
\* as <<x, kd0>>.  For 512 <= |x| < 1024 (x.e >= -43) the scale is kept in
\* range by a power of 2 that the result is multiplied by at the end.
ExpSteps[v \in Seq(Double)] ==
    CASE Len(v) = 2 -> ExpSteps[Append(v, Sub(v[2], ExpData[2]))]  \* kd = kd0 - shift
      [] Len(v) = 3 -> ExpSteps[Append(v, Fma(v[3], ExpData[3], v[1]))]  \* r = x - kd*ln2/128, upper part
      [] Len(v) = 4 -> ExpSteps[Append(v, Fma(v[3], ExpData[4], v[4]))]  \* r, lower part
      [] Len(v) = 5 -> ExpSteps[Append(v, Fma(v[5], ExpPoly[2], ExpPoly[1]))]  \* C2 + r*C3
      [] Len(v) = 6 -> ExpSteps[Append(v, Add(v[5], ExpTab[(ExpK(v[2]) % 128) + 1][1]))]  \* r + tail
      [] Len(v) = 7 -> ExpSteps[Append(v, Mul(v[5], v[5]))]  \* r2 = r*r
      [] Len(v) = 8 -> ExpSteps[Append(v, Fma(v[5], ExpPoly[4], ExpPoly[3]))]  \* C4 + r*C5
      [] Len(v) = 9 -> ExpSteps[Append(v, Fma(v[6], v[8], v[7]))]  \* tail + r + r2*(C2 + r*C3)
      [] Len(v) = 10 -> ExpSteps[Append(v, Mul(v[8], v[8]))]  \* r2*r2
      [] Len(v) = 11 -> ExpSteps[Append(v, Fma(v[11], v[9], v[10]))]  \* tmp = exp(r) - 1
      \* the scale 2^(k/128), and the result scale + scale*tmp
      [] Len(v) = 12 /\ v[1].e < -43 -> ExpSteps[Append(v, ExpScale(ExpK(v[2]), 0))]
      [] Len(v) = 12 /\ v[1].e >= -43 /\ ExpK(v[2]) >= 0 -> ExpSteps[Append(v, ExpScale(ExpK(v[2]), -1009))]
      [] Len(v) = 12 /\ v[1].e >= -43 /\ ExpK(v[2]) < 0 -> ExpSteps[Append(v, ExpScale(ExpK(v[2]), 1022))]
      [] Len(v) = 13 /\ v[1].e < -43 -> Fma(v[13], v[12], v[13])
      [] Len(v) = 13 /\ v[1].e >= -43 /\ ExpK(v[2]) >= 0 -> Mul(Fma(v[13], v[12], v[13]), Plus(Two24, 0, 957))
      \* a result below 2^-1022 * 2 is rounded as a subnormal number is
      [] Len(v) = 13 /\ v[1].e >= -43 /\ ExpK(v[2]) < 0 -> ExpSteps[Append(v, Mul(v[12], v[13]))]
      [] Len(v) = 14 -> ExpSteps[Append(v, Add(v[13], v[14]))]  \* y = scale + scale*tmp
      [] Len(v) = 15 /\ ~Lt(v[15], One) -> Mul(v[15], Plus(Two24, 0, -1074))
      [] Len(v) = 15 /\ Lt(v[15], One) -> ExpSteps[Append(v, Add(v[15], One))]
      [] Len(v) = 16 -> ExpSteps[Append(v, Add(Sub(v[13], v[15]), v[14]))]  \* lo: what y lacks
      [] Len(v) = 17 -> ExpSteps[Append(v, Sub(Add(Add(Add(Sub(One, v[16]), v[15]), v[17]), v[16]), One))]  \* y rounded as the subnormal result will be
      [] OTHER -> Mul(IF IsZero(v[18]) THEN Zero ELSE v[18], Plus(Two24, 0, -1074))

ExpOf[x \in Double] ==
    IF IsNaN(x) THEN NaN
    ELSE IF x.e < -106 THEN Add(One, x)
    ELSE IF x.e >= -42 THEN (IF x.neg THEN Zero ELSE PInf)
    ELSE ExpSteps[<<x, Fma(x, ExpData[1], ExpData[2])>>]
Exp(x) == ExpOf[x]

(***************************************************************************)
(* configuration and state                                                 *)
(***************************************************************************)
\* MonteCarloMembraneBarostat::XYMode and ZMode
XYModes == {"XYIsotropic", "XYAnisotropic"}
ZModes == {"ZFree", "ZFixed", "ConstantVolume"}
Axes == 0 .. 2

\* the floats BOLTZMANN = 1.380658e-23f and AVOGADRO = 6.0221367e23f
BOLTZMANN == Plus(17501920, 0, -128)
AVOGADRO == Plus(33429574, 0, 26)
\* RGAS = BOLTZMANN*AVOGADRO and BOLTZ = RGAS/1000, computed in float
RGAS == ToFloat[Mul(BOLTZMANN, AVOGADRO)]
BOLTZ == ToFloat[Div(RGAS, ToDouble(1000))]
\* AVOGADRO*1e-25, the float widened to double; the literal 1e-25 is the
\* double 8711228593176025 * 2^-136
AVOGADRO_E25 == Mul(AVOGADRO, Plus(32451855, 98205145, -136))
\* the number of attempts on an axis from which the acceptance ratio is checked
TuneEvery == 10

\* the values the environment supplies, one choice per call
Pressures == {ToDouble(1)}        \* context parameter Pressure, bar
Tensions == {ToDouble(200)}       \* context parameter SurfaceTension, bar*nm
Temperatures == {ToDouble(300)}   \* owner.getTemperature(), K
MoleculeCounts == {2}       \* context.getMolecules().size()
Frequencies == 0 .. 2       \* owner.getFrequency()
Seeds == {0, 42}            \* owner.getRandomNumberSeed()
OsSeeds == {7}              \* what osrngseed() returns
InitialBoxes == {[i \in Axes |-> ToDouble(3)]}
InitialPositions == {[i \in Axes |-> ToDouble(i + 1)]}
\* what the members hold before initialize writes them
Junk == {0, 5}

VARIABLES
    kernel,          \* the Kernel handle: "none" until initialize
    created,         \* how many times Platform::createKernel was called
    step,            \* MonteCarloMembraneBarostatImpl::step
    volumeScale,     \* volumeScale[3]
    numAttempted,    \* numAttempted[3]
    numAccepted,     \* numAccepted[3]
    random,          \* the SFMT generator: its seed and how many variates it gave
    frequency,       \* owner's frequency
    xyMode,          \* owner's XY mode
    zMode,           \* owner's Z mode
    seed,            \* owner's random number seed
    box,             \* the context's periodic box vectors (diagonal lengths)
    positions,       \* the context's particle coordinates (one particle)
    saved,           \* the coordinates the kernel saved in scaleCoordinates
    ticks,           \* how many updateContextState calls were made
    trials,          \* how many of them went past the interval test
    last,            \* what the last updateContextState call did
    registry,        \* the kernel factories registered on the platforms
    drudeKernels,    \* the kernels ReferenceDrudeKernelFactory has created
    dispatch         \* what the last createKernelImpl call was asked and did

vars == <<kernel, created, step, volumeScale, numAttempted, numAccepted, random,
          frequency, xyMode, zMode, seed, box, positions, saved, ticks, trials,
          last, registry, drudeKernels, dispatch>>

drude == <<registry, drudeKernels, dispatch>>

owner == <<frequency, xyMode, zMode, seed>>
tuning == <<volumeScale, numAttempted, numAccepted>>
context == <<box, positions, saved>>

\* the record of a call that has not happened
NoCall ==
    [result |-> "none", axis |-> -1, w |-> Zero, axisDraws |-> 0, variates |-> 0,
     calls |-> <<>>, deltaVolume |-> Zero, newVolume |-> Zero,
     lengthScale |-> [i \in Axes |-> One], tuned |-> "none", energy |-> Zero]

(***************************************************************************)
(* MonteCarloMembraneBarostatImpl::updateContextState, piece by piece      *)
(***************************************************************************)
\* faulty variant: the test for a zero interval is left out
SkipsTrialIgnoringZero(s, f) == s < f

\* faulty variant: the interval test is off by one
SkipsTrialOffByOne(s, f) == s <= f \/ f = 0

\* faulty variant: a trial runs only when the step counter equals the interval
SkipsTrialUnlessEqual(s, f) == s # f \/ f = 0

\* if (++step < owner.getFrequency() || owner.getFrequency() == 0) return;
\* s is the step counter after its increment
SkipsTrial(s, f) == s < f \/ f = 0

\* faulty variant: the last branch forgets to ask for ZFree
ChooseAxisAnyZ(r, xy, z) ==
    LET rnd == Mul(r, Three)
    IN  IF Lt(rnd, One) THEN 0
        ELSE IF Lt(rnd, Two) THEN (IF xy = "XYIsotropic" THEN 0 ELSE 1)
        ELSE 2

\* faulty variant: the first two branches have lost their break, so that only
\* the ZFree branch leaves the loop
ChooseAxisWithoutBreaks(r, xy, z) ==
    LET rnd == Mul(r, Three)
    IN  IF Lt(rnd, Two) THEN -1
        ELSE IF z = "ZFree" THEN 2
        ELSE -1

\* one turn of the axis loop on the variate r: the axis chosen, or -1 when
\* the loop draws again (rnd = r*3.0)
ChooseAxis(r, xy, z) ==
    LET rnd == Mul(r, Three)
    IN  IF Lt(rnd, One) THEN 0
        ELSE IF Lt(rnd, Two) THEN (IF xy = "XYIsotropic" THEN 0 ELSE 1)
        ELSE IF z = "ZFree" THEN 2
        ELSE -1

\* the draws of one run of the axis loop: every draw but the last draws again
IsAxisLoop(ds, xy, z) ==
    /\ Len(ds) >= 1
    /\ \A i \in 1 .. Len(ds) - 1 : ChooseAxis(ds[i], xy, z) = -1
    /\ ChooseAxis(ds[Len(ds)], xy, z) # -1

\* box[0][0]*box[1][1]*box[2][2]
Volume(bx) == Mul(Mul(bx[0], bx[1]), bx[2])

\* volumeScale[axis]*2*(genrand_real2(random)-0.5)
DeltaVolume(vs, r) == Mul(Mul(vs, Two), Sub(r, Half))

\* lengthScale before the ConstantVolume override
LengthScale(axis, xy, newVolume, volume) ==
    IF axis \in {0, 1} /\ xy = "XYIsotropic"
    THEN LET both == Sqrt(Div(newVolume, volume))
         IN  [i \in Axes |-> IF i = 2 THEN One ELSE both]
    ELSE [i \in Axes |-> IF i = axis THEN Div(newVolume, volume) ELSE One]

\* BOLTZ*owner.getTemperature()
KT(T) == Mul(BOLTZ, T)

\* getParameter(name)*(AVOGADRO*1e-25)
ToInternal(p) == Mul(p, AVOGADRO_E25)

\* if (owner.getZMode() == ConstantVolume)
\*     lengthScale[2] = 1.0/(lengthScale[0]*lengthScale[1]);
ConstantVolumeScale(z, ls) ==
    IF z = "ConstantVolume" THEN [ls EXCEPT ![2] = Div(One, Mul(ls[0], ls[1]))] ELSE ls

\* deltaArea, the box given to setPeriodicBoxVectors, kT and the weight w,
\* from the volumes and the scales as the ConstantVolume branch leaves them
Weighed(bx, volume, deltaVolume, newVolume, lengthScale, E0, E1, P, tens, T, N) ==
    LET deltaArea == Sub(Mul(Mul(Mul(bx[0], lengthScale[0]), bx[1]), lengthScale[1]),
                         Mul(bx[0], bx[1]))
    IN  [volume |-> volume, deltaVolume |-> deltaVolume, newVolume |-> newVolume,
         lengthScale |-> lengthScale, deltaArea |-> deltaArea, kT |-> KT(T),
         w |-> Sub(Sub(Add(Sub(E1, E0), Mul(ToInternal(P), deltaVolume)),
                       Mul(ToInternal(tens), deltaArea)),
                   Mul(Mul(ToDouble(N), KT(T)), Log(Div(newVolume, volume)))),
         newBox |-> [i \in Axes |-> Mul(bx[i], lengthScale[i])]]

\* faulty variant: the ConstantVolume branch sets lengthScale[2] but leaves
\* newVolume and deltaVolume as they were
ProposalKeepsDeltaVolume(bx, vs, axis, xy, z, r, E0, E1, P, tens, T, N) ==
    LET volume      == Volume(bx)
        deltaVolume == DeltaVolume(vs, r)
        newVolume   == Add(volume, deltaVolume)
    IN  Weighed(bx, volume, deltaVolume, newVolume,
                ConstantVolumeScale(z, LengthScale(axis, xy, newVolume, volume)),
                E0, E1, P, tens, T, N)

\* the proposal of one trial: everything computed from the box read at the
\* start of the trial up to the weight w
Proposal(bx, vs, axis, xy, z, r, E0, E1, P, tens, T, N) ==
    LET volume      == Volume(bx)
        deltaVolume == DeltaVolume(vs, r)
        newVolume   == Add(volume, deltaVolume)
        cv          == z = "ConstantVolume"
    IN  Weighed(bx, volume, IF cv THEN Zero ELSE deltaVolume,
                IF cv THEN volume ELSE newVolume,
                ConstantVolumeScale(z, LengthScale(axis, xy, newVolume, volume)),
                E0, E1, P, tens, T, N)

\* faulty variant: the sign test is left out and the exponent has lost its minus sign
RejectsSignSlip(w, u, kT) == Gt(u, Exp(Div(w, kT)))

\* if (w > 0 && genrand_real2(random) > std::exp(-w/kT)): reject the step
Rejects(w, u, kT) == Gt(w, Zero) /\ Gt(u, Exp(Div(Neg(w), kT)))

\* whether the acceptance variate is drawn at all (&& short-circuits)
DrawsVariate(w) == Gt(w, Zero)

\* faulty variant: the shrink branch forgets to reset numAccepted
TuneKeepsAccepted(vs, attempted, accepted, volume) ==
    IF attempted >= TuneEvery
       /\ Lt(ToDouble(accepted), Mul(Quarter, ToDouble(attempted)))
    THEN [volumeScale |-> Div(vs, OnePointOne), numAttempted |-> 0,
          numAccepted |-> accepted, tuned |-> "shrink"]
    ELSE IF attempted >= TuneEvery
            /\ Gt(ToDouble(accepted), Mul(ThreeQuarters, ToDouble(attempted)))
    THEN [volumeScale |-> Min(Mul(vs, OnePointOne), Mul(volume, ThreeTenths)),
          numAttempted |-> 0, numAccepted |-> 0, tuned |-> "grow"]
    ELSE [volumeScale |-> vs, numAttempted |-> attempted, numAccepted |-> accepted,
          tuned |-> "none"]

NineTenths == Dec(9, 10)

\* faulty variant: the shrink branch multiplies by 0.9 instead of dividing by 1.1
TuneShrinkByMul(vs, attempted, accepted, volume) ==
    IF attempted >= TuneEvery
       /\ Lt(ToDouble(accepted), Mul(Quarter, ToDouble(attempted)))
    THEN [volumeScale |-> Mul(vs, NineTenths), numAttempted |-> 0,
          numAccepted |-> 0, tuned |-> "shrink"]
    ELSE IF attempted >= TuneEvery
            /\ Gt(ToDouble(accepted), Mul(ThreeQuarters, ToDouble(attempted)))
    THEN [volumeScale |-> Min(Mul(vs, OnePointOne), Mul(volume, ThreeTenths)),
          numAttempted |-> 0, numAccepted |-> 0, tuned |-> "grow"]
    ELSE [volumeScale |-> vs, numAttempted |-> attempted, numAccepted |-> accepted,
          tuned |-> "none"]

\* the tuning of one axis after its counters were updated; volume is the
\* local variable volume at that point
Tune(vs, attempted, accepted, volume) ==
    IF attempted >= TuneEvery
       /\ Lt(ToDouble(accepted), Mul(Quarter, ToDouble(attempted)))
    THEN [volumeScale |-> Div(vs, OnePointOne), numAttempted |-> 0,
          numAccepted |-> 0, tuned |-> "shrink"]
    ELSE IF attempted >= TuneEvery
            /\ Gt(ToDouble(accepted), Mul(ThreeQuarters, ToDouble(attempted)))
    THEN [volumeScale |-> Min(Mul(vs, OnePointOne), Mul(volume, ThreeTenths)),
          numAttempted |-> 0, numAccepted |-> 0, tuned |-> "grow"]
    ELSE [volumeScale |-> vs, numAttempted |-> attempted, numAccepted |-> accepted,
          tuned |-> "none"]

(***************************************************************************)
(* ApplyMonteCarloBarostatKernel, as its contract describes it             *)
(***************************************************************************)
\* scaleCoordinates: remembers the coordinates, then scales them in place
ScaleCoordinates(pos, ls) == [i \in Axes |-> Mul(pos[i], ls[i])]

\* restoreCoordinates: brings back the coordinates scaleCoordinates remembered
RestoreCoordinates(pos, sv) == sv

(***************************************************************************)
(* ReferenceDrudeKernelFactory                                             *)
(***************************************************************************)
\* CalcDrudeForceKernel::Name() and IntegrateDrudeLangevinStepKernel::Name()
CalcDrudeForceName == "CalcDrudeForce"
IntegrateDrudeLangevinStepName == "IntegrateDrudeLangevinStep"

\* the kernel names a context may ask for
KernelNames ==
    {CalcDrudeForceName, IntegrateDrudeLangevinStepName, "ApplyMonteCarloBarostat",
     "IntegrateDrudeSCFStep", ""}

\* the record of a createKernelImpl call that has not happened
NoDispatch == [name |-> "none", outcome |-> "none", impl |-> "none"]

\* faulty variant: the second test is missing, any other name gets the integrator
CreateKernelImplWithoutSecondTest(name) ==
    IF name = CalcDrudeForceName
    THEN [name |-> name, outcome |-> "kernel", impl |-> "ReferenceCalcDrudeForceKernel"]
    ELSE [name |-> name, outcome |-> "kernel",
          impl |-> "ReferenceIntegrateDrudeLangevinStepKernel"]

\* ReferenceDrudeKernelFactory::createKernelImpl: the kernel it returns, or
\* the exception it throws
CreateKernelImpl(name) ==
    IF name = CalcDrudeForceName
    THEN [name |-> name, outcome |-> "kernel", impl |-> "ReferenceCalcDrudeForceKernel"]
    ELSE IF name = IntegrateDrudeLangevinStepName
    THEN [name |-> name, outcome |-> "kernel",
          impl |-> "ReferenceIntegrateDrudeLangevinStepKernel"]
    ELSE [name |-> name, outcome |-> "OpenMMException", impl |-> "none"]

\* Platform::registerKernelFactory: stores, or overwrites, the factory of
\* the pair (platform, name)
RegisterKernelFactory(reg, platform, name, factory) ==
    {e \in reg : ~(e.platform = platform /\ e.name = name)}
    \cup {[platform |-> platform, name |-> name, factory |-> factory]}

\* initDrudeReferenceKernels, run once when the module is loaded
InitDrudeReferenceKernels ==
    /\ registry = {}
    /\ \E factory \in {"ReferenceDrudeKernelFactory"} :
         registry' = RegisterKernelFactory(
                         RegisterKernelFactory(registry, "Reference",
                                               CalcDrudeForceName, factory),
                         "Reference", IntegrateDrudeLangevinStepName, factory)
    /\ UNCHANGED <<drudeKernels, dispatch>>
    /\ UNCHANGED <<kernel, created, step, tuning, random, owner, context, ticks,
                   trials, last>>

\* a call of the factory's createKernelImpl with the name given
RequestKernel(name) ==
    /\ registry # {}
    /\ \E res \in {CreateKernelImpl(name)} :
         /\ dispatch' = res
         /\ drudeKernels' = IF res.outcome = "kernel"
                            THEN Append(drudeKernels, [name |-> name, impl |-> res.impl])
                            ELSE drudeKernels
    /\ UNCHANGED registry
    /\ UNCHANGED <<kernel, created, step, tuning, random, owner, context, ticks,
                   trials, last>>

(***************************************************************************)
(* the operations                                                          *)
(***************************************************************************)
\* the state after the constructor: step(0), nothing else written; the
\* owner's settings and the members' old contents are drawn from the sets
InitWith(junks, seeds, freqs, xys, zs) ==
    /\ kernel = "none"
    /\ created = 0
    /\ step = 0
    /\ \E j \in junks :
         /\ volumeScale = [i \in Axes |-> ToDouble(j)]
         /\ numAttempted = [i \in Axes |-> j]
         /\ numAccepted = [i \in Axes |-> j]
    /\ random = [seed |-> 0, count |-> 0]
    /\ frequency \in freqs
    /\ xyMode \in xys
    /\ zMode \in zs
    /\ seed \in seeds
    /\ box \in InitialBoxes
    /\ positions \in InitialPositions
    /\ saved = positions
    /\ ticks = 0
    /\ trials = 0
    /\ last = NoCall
    /\ registry = {}
    /\ drudeKernels = <<>>
    /\ dispatch = NoDispatch

\* faulty variant: the seed is handed to the generator as it is
InitializeSeedAsGiven(os) ==
    /\ kernel = "none"
    /\ kernel' = "ApplyMonteCarloBarostat"
    /\ created' = created + 1
    /\ volumeScale' = [i \in Axes |-> Mul(OneHundredth, Volume(box))]
    /\ numAttempted' = [i \in Axes |-> 0]
    /\ numAccepted' = [i \in Axes |-> 0]
    /\ random' = [seed |-> seed, count |-> 0]
    /\ UNCHANGED drude /\ UNCHANGED <<step, owner, context, ticks, trials, last>>

\* MonteCarloMembraneBarostatImpl::initialize; os is what osrngseed() gives
Initialize(os) ==
    /\ kernel = "none"
    /\ kernel' = "ApplyMonteCarloBarostat"
    /\ created' = created + 1
    /\ volumeScale' = [i \in Axes |-> Mul(OneHundredth, Volume(box))]
    /\ numAttempted' = [i \in Axes |-> 0]
    /\ numAccepted' = [i \in Axes |-> 0]
    /\ random' = [seed |-> IF seed = 0 THEN os ELSE seed, count |-> 0]
    /\ UNCHANGED drude /\ UNCHANGED <<step, owner, context, ticks, trials, last>>

\* Context::setPeriodicBoxVectors by the user, before the context is initialized
SetPeriodicBoxVectors(bx) ==
    /\ kernel = "none"
    /\ bx # box
    /\ box' = bx
    /\ UNCHANGED drude /\ UNCHANGED <<kernel, created, step, tuning, random, owner, positions, saved,
                   ticks, trials, last>>

\* MonteCarloMembraneBarostat::setFrequency, between two calls
SetFrequency(f) ==
    /\ frequency' = f
    /\ f # frequency
    /\ UNCHANGED drude /\ UNCHANGED <<kernel, created, step, tuning, random, xyMode, zMode, seed,
                   context, ticks, trials, last>>

\* the context can be stepped: it was initialized, and no exception has
\* ended the simulation
Running == kernel # "none" /\ last.result # "threw"

\* faulty variant: the call asks the platform for the kernel again before
\* it looks at the interval
NoOpTickCreatingKernel ==
    /\ Running
    /\ SkipsTrial(step + 1, frequency)
    /\ created' = created + 1
    /\ step' = step + 1
    /\ ticks' = ticks + 1
    /\ last' = [NoCall EXCEPT !.result = "noop"]
    /\ UNCHANGED drude /\ UNCHANGED <<kernel, tuning, random, owner, context, trials>>

\* updateContextState when the step counter is below the interval, or the
\* interval is 0
NoOpTick ==
    /\ Running
    /\ SkipsTrial(step + 1, frequency)
    /\ step' = step + 1
    /\ ticks' = ticks + 1
    /\ last' = [NoCall EXCEPT !.result = "noop"]
    /\ UNCHANGED drude /\ UNCHANGED <<kernel, created, tuning, random, owner, context, trials>>

\* faulty variant: the reject branch forgets setPeriodicBoxVectors(box[0], box[1], box[2])
BoxAfterWithoutReset(rejected, bx, newBox) == newBox

\* the box the context holds when the call returns
BoxAfter(rejected, bx, newBox) == IF rejected THEN bx ELSE newBox

\* the coordinates the context holds when the call returns; sv is what the
\* kernel saved in this trial's scaleCoordinates
PositionsAfter(rejected, scaled, sv) ==
    IF rejected THEN RestoreCoordinates(scaled, sv) ELSE scaled

\* the local variable volume when the tuning reads it
TuningVolume(rejected, volume, newVolume) == IF rejected THEN newVolume ELSE volume

\* numAccepted[axis] after the acceptance test
AcceptedAfter(rejected, accepted) == IF rejected THEN accepted ELSE accepted + 1

\* faulty variant: the new box is committed before the coordinates are scaled
TrialCallsBoxFirst(rejected) ==
    <<"getState", "setPeriodicBoxVectors", "scaleCoordinates", "getState">>
    \o (IF rejected THEN <<"restoreCoordinates", "setPeriodicBoxVectors">> ELSE <<>>)

\* the calls a completed trial makes on the context and the kernel, in order
TrialCalls(rejected) ==
    <<"getState", "scaleCoordinates", "setPeriodicBoxVectors", "getState">>
    \o (IF rejected THEN <<"restoreCoordinates", "setPeriodicBoxVectors">> ELSE <<>>)

\* updateContextState when a trial runs and no call it makes throws.
\* ds: the variates of the axis loop, r: the variate of the volume change,
\* u: the variate the acceptance test would draw, E0 and E1: the potential
\* energies the context reports, P, tens: the context parameters,
\* T: the temperature, N: the number of molecules
Trial(ds, r, u, E0, E1, P, tens, T, N) ==
    /\ Running
    /\ ~SkipsTrial(step + 1, frequency)
    /\ IsAxisLoop(ds, xyMode, zMode)
    /\ \E axis \in {ChooseAxis(ds[Len(ds)], xyMode, zMode)} :
       \E p \in {Proposal(box, volumeScale[axis], axis, xyMode, zMode, r,
                          E0, E1, P, tens, T, N)} :
       \E rejected \in {Rejects(p.w, u, p.kT)} :
       \E t \in {Tune(volumeScale[axis], numAttempted[axis] + 1,
                      AcceptedAfter(rejected, numAccepted[axis]),
                      TuningVolume(rejected, p.volume, p.newVolume))} :
       \E drawn \in {Len(ds) + 1 + (IF DrawsVariate(p.w) THEN 1 ELSE 0)} :
           /\ step' = 0
           /\ saved' = positions
           /\ positions' = PositionsAfter(rejected,
                               ScaleCoordinates(positions, p.lengthScale), positions)
           /\ box' = BoxAfter(rejected, box, p.newBox)
           /\ volumeScale' = [volumeScale EXCEPT ![axis] = t.volumeScale]
           /\ numAttempted' = [numAttempted EXCEPT ![axis] = t.numAttempted]
           /\ numAccepted' = [numAccepted EXCEPT ![axis] = t.numAccepted]
           /\ random' = [random EXCEPT !.count = @ + drawn]
           /\ last' = [result |-> IF rejected THEN "rejected" ELSE "accepted",
                       axis |-> axis, w |-> p.w, axisDraws |-> Len(ds),
                       variates |-> drawn, calls |-> TrialCalls(rejected),
                       deltaVolume |-> p.deltaVolume, newVolume |-> p.newVolume,
                       lengthScale |-> p.lengthScale, tuned |-> t.tuned,
                       energy |-> E1]
    /\ ticks' = ticks + 1
    /\ trials' = trials + 1
    /\ UNCHANGED drude /\ UNCHANGED <<kernel, created, owner>>

\* the calls of a trial that can throw, by their place among TrialCalls:
\* 1 getState (line 77), 2 scaleCoordinates (115), 3 setPeriodicBoxVectors
\* (116), 4 getState (120), and in the reject branch 5 restoreCoordinates
\* (126) and 6 setPeriodicBoxVectors (127)
FailurePoints == 1 .. 6

\* the calls made up to and including the one that throws
CallsUntil(fail, rejected) == SubSeq(TrialCalls(rejected), 1, fail)

\* updateContextState when a trial runs and the call at the place fail
\* throws: the function has no handler, so the exception leaves it at once
\* and ends the simulation.  A call that throws changes nothing itself.
\* The first getState comes before the axis loop, so no variate is drawn
\* when it throws; the calls of the reject branch come after the
\* acceptance variate.
ThrowingTrial(ds, r, u, fail, E0, E1, P, tens, T, N) ==
    /\ Running
    /\ ~SkipsTrial(step + 1, frequency)
    /\ IsAxisLoop(ds, xyMode, zMode)
    /\ \E axis \in {ChooseAxis(ds[Len(ds)], xyMode, zMode)} :
       \E p \in {Proposal(box, volumeScale[axis], axis, xyMode, zMode, r,
                          E0, E1, P, tens, T, N)} :
       \E rejected \in {Rejects(p.w, u, p.kT)} :
       \E scaled \in {ScaleCoordinates(positions, p.lengthScale)} :
       \E drawn \in {IF fail = 1 THEN 0 ELSE Len(ds) + 1 + (IF fail > 4 THEN 1 ELSE 0)} :
           /\ fail > 4 => rejected
           /\ step' = 0
           /\ saved' = IF fail <= 2 THEN saved ELSE positions
           /\ positions' = IF fail <= 2 THEN positions
                           ELSE IF fail = 6 THEN RestoreCoordinates(scaled, positions)
                           ELSE scaled
           /\ box' = IF fail <= 3 THEN box ELSE p.newBox
           /\ random' = [random EXCEPT !.count = @ + drawn]
           /\ last' = IF fail = 1
                       THEN [NoCall EXCEPT !.result = "threw",
                                           !.calls = CallsUntil(fail, rejected)]
                       ELSE [NoCall EXCEPT !.result = "threw", !.axis = axis,
                                !.axisDraws = Len(ds), !.variates = drawn,
                                !.calls = CallsUntil(fail, rejected),
                                !.deltaVolume = p.deltaVolume, !.newVolume = p.newVolume,
                                !.lengthScale = p.lengthScale,
                                !.w = IF fail > 4 THEN p.w ELSE Zero,
                                !.energy = IF fail > 4 THEN E1 ELSE Zero]
    /\ ticks' = ticks + 1
    /\ trials' = trials + 1
    /\ UNCHANGED drude /\ UNCHANGED <<kernel, created, tuning, owner>>

(***************************************************************************)
(* the specifications                                                      *)
(***************************************************************************)
\* genrand_real2(random): a 32-bit integer, here h * 2^16 + l, times 2^-32
Variate(h, l) == Round[FALSE, <<(h % 2^12) * 2^16 + l, h \div 2^12, 0, 0>>, -32, FALSE]
\* 0xE6666666 * 2^-32, the variate next below 0.9
High == Variate(58982, 26214)

\* the variates genrand_real2 gives, in [0, 1)
AxisVariates == {Zero, Half, High}
VolumeVariates == {Zero, ThreeQuarters}
AcceptVariates == {Zero, Half}
\* the potential energies the context reports, kJ/mol
InitialEnergies == {Zero}
FinalEnergies == {ToDouble(-50), Two, NaN}

\* the runs of the axis loop: one draw, or two of which the first asks for
\* another (those that are no run under the owner's modes are left out)
AxisLoops == {<<Zero>>, <<Half>>, <<High>>, <<High, Zero>>}

DoInitialize == \E os \in OsSeeds : Initialize(os)


\* a trial with its variates and energies drawn from the sets
DoTrial(loops, rs, us, E1s) ==
    \E ds \in {l \in loops : IsAxisLoop(l, xyMode, zMode)}, r \in rs, u \in us,
       E0 \in InitialEnergies, E1 \in E1s,
       P \in Pressures, tens \in Tensions, T \in Temperatures,
       N \in MoleculeCounts :
        Trial(ds, r, u, E0, E1, P, tens, T, N)

\* a trial one of whose calls throws
DoThrowingTrial(loops, rs, us, E1s) ==
    \E ds \in {l \in loops : IsAxisLoop(l, xyMode, zMode)}, r \in rs, u \in us,
       fail \in FailurePoints, E0 \in InitialEnergies, E1 \in E1s,
       P \in Pressures, tens \in Tensions, T \in Temperatures, N \in MoleculeCounts :
        ThrowingTrial(ds, r, u, fail, E0, E1, P, tens, T, N)

\* Spec: every operation, with every kind of input, over a few calls
MaxTicks == 2

Init == InitWith({5}, {42}, Frequencies, XYModes, ZModes)

Next ==
    \/ DoInitialize
    \/ \E f \in Frequencies : SetFrequency(f)
    \/ ticks < MaxTicks /\ NoOpTick
    \/ ticks < MaxTicks /\ DoTrial(AxisLoops, VolumeVariates, AcceptVariates, FinalEnergies)
    \/ ticks < MaxTicks /\ DoThrowingTrial({<<Zero>>}, {Zero}, {Half}, {Two})

Spec == Init /\ [][Next]_vars

\* SpecFixed: the interval never changes after construction
MaxTicksFixed == 7

NextFixed ==
    \/ DoInitialize
    \/ ticks < MaxTicksFixed /\ NoOpTick
    \/ ticks < MaxTicksFixed /\ DoTrial({<<Zero>>}, {Zero}, AcceptVariates, {Two})
    \/ ticks < MaxTicksFixed /\ DoThrowingTrial({<<Zero>>}, {Zero}, {Half}, {Two})

SpecFixed == InitWith({5}, {42}, 0 .. 3, XYModes, {"ZFree"}) /\ [][NextFixed]_vars

\* SpecTune: a trial on every call, many calls, the box left as it is
\* (the variate 1/2 gives a volume change of zero), so that the counters
\* reach the tuning threshold on two axes
MaxTicksTune == 12

NextTune ==
    \/ DoInitialize
    \/ ticks < MaxTicksTune
       /\ DoTrial({<<Zero>>, <<Half>>}, {Half}, {Half},
                  {ToDouble(-50), ToDouble(50)})

SpecTune == InitWith({5}, {42}, {1}, {"XYAnisotropic"}, ZModes) /\ [][NextTune]_vars

\* SpecStub: a generator that always gives 0 (axis 0, the largest shrink,
\* acceptance of every trial) and a potential energy that drops at each trial
MaxTicksStub == 85

NextStub ==
    \/ DoInitialize
    \/ ticks < MaxTicksStub /\ DoTrial({<<Zero>>}, {Zero}, {Zero}, {ToDouble(-50)})

SpecStub == InitWith({5}, {42}, {1}, XYModes, {"ZFree", "ZFixed"}) /\ [][NextStub]_vars

\* SpecOneAxis: a trial on every call, always on axis 0, the box left as it
\* is, each trial accepted or rejected, for more calls than one tuning batch
MaxTicksOneAxis == 14

NextOneAxis ==
    \/ DoInitialize
    \/ ticks < MaxTicksOneAxis
       /\ DoTrial({<<Zero>>}, {Half}, {Half}, {ToDouble(-50), ToDouble(50)})

SpecOneAxis == InitWith({5}, {42}, {1}, XYModes, ZModes) /\ [][NextOneAxis]_vars

\* SpecModes: a trial on every call, on any axis the modes allow, none
\* rejected, the box left as it is, until an axis is tuned
MaxTicksModes == 11

NextModes ==
    \/ DoInitialize
    \/ ticks < MaxTicksModes
       /\ DoTrial({<<Zero>>, <<Half>>, <<High>>, <<High, Zero>>},
                  {Half}, {Half}, {ToDouble(-50)})

SpecModes == InitWith({5}, {42}, {1}, XYModes, ZModes) /\ [][NextModes]_vars

\* SpecConstVol: the Z mode ConstantVolume, a trial on every call with a
\* volume change on axis 0, accepted or rejected, until axis 0 is tuned
MaxTicksConstVol == 10

NextConstVol ==
    \/ DoInitialize
    \/ ticks < MaxTicksConstVol
       /\ DoTrial({<<Zero>>}, VolumeVariates, {Half}, {ToDouble(-50), ToDouble(50)})

SpecConstVol ==
    InitWith({5}, {42}, {1}, XYModes, {"ConstantVolume"}) /\ [][NextConstVol]_vars

\* SpecInit: the construction with any old contents of the members, either
\* kind of seed and either box, the initialization, and the first call
MaxTicksInit == 1

OtherBoxes == {[i \in Axes |-> ToDouble(i + 2)]}

NextInit ==
    \/ DoInitialize
    \/ \E bx \in InitialBoxes \cup OtherBoxes : SetPeriodicBoxVectors(bx)
    \/ ticks < MaxTicksInit /\ NoOpTick
    \/ ticks < MaxTicksInit /\ DoTrial({<<Zero>>}, VolumeVariates, {Zero}, {Two})

SpecInit == InitWith(Junk, Seeds, Frequencies, XYModes, ZModes) /\ [][NextInit]_vars

\* SpecDrude: the reference Drude module is loaded and its factory is asked
\* for kernels, by any name, a few times
MaxRequests == 3

NextDrude ==
    \/ InitDrudeReferenceKernels
    \/ Len(drudeKernels) < MaxRequests /\ \E name \in KernelNames : RequestKernel(name)

SpecDrude == Init /\ [][NextDrude]_vars

\* the axis loop taken one draw at a time.  While a call is in the loop,
\* last.result is "drawing" and last.axisDraws counts the draws that asked
\* for another draw; the call's writes are those of Trial, made when the
\* loop ends.
\* how many times the axis loop is followed drawing again in one call
MaxLoopRedraws == 3

\* updateContextState passes the interval test and enters the axis loop
BeginTrial ==
    /\ Running
    /\ last.result # "drawing"
    /\ ~SkipsTrial(step + 1, frequency)
    /\ last' = [NoCall EXCEPT !.result = "drawing"]
    /\ UNCHANGED drude
    /\ UNCHANGED <<kernel, created, step, tuning, random, owner, context, ticks, trials>>

\* one turn of the loop that reaches none of its breaks
DrawAgain(r) ==
    /\ last.result = "drawing"
    /\ ChooseAxis(r, xyMode, zMode) = -1
    /\ last' = [last EXCEPT !.axisDraws = @ + 1]
    /\ UNCHANGED drude
    /\ UNCHANGED <<kernel, created, step, tuning, random, owner, context, ticks, trials>>

\* the turn of the loop that reaches a break, and the rest of the call
CompleteTrial(loops, rs, us, E1s) ==
    /\ last.result = "drawing"
    /\ DoTrial({l \in loops : Len(l) = last.axisDraws + 1}, rs, us, E1s)

\* the runs of the axis loop that draw again MaxLoopRedraws times at most:
\* draws of High, the one variate here that can ask for another draw, and
\* then any variate
LongAxisLoops ==
    {[i \in 1 .. n |-> IF i < n THEN High ELSE r] :
        n \in 1 .. MaxLoopRedraws + 1, r \in AxisVariates}

\* those whose last draw is below 2/3
LowLoops == {l \in LongAxisLoops : Lt(Mul(l[Len(l)], Three), Two)}

\* SpecLoop: calls whose axis loop runs draw by draw, for as long as the
\* generator asks; the generator is fair: a draw below 2/3 comes in the end
MaxTicksLoop == 2

NextLoop ==
    \/ DoInitialize
    \/ ticks < MaxTicksLoop /\ last.result # "drawing" /\ NoOpTick
    \/ ticks < MaxTicksLoop /\ BeginTrial
    \/ last.axisDraws < MaxLoopRedraws /\ \E r \in AxisVariates : DrawAgain(r)
    \/ CompleteTrial(LongAxisLoops, {Half}, {Half}, {ToDouble(-50), ToDouble(50)})

FairGenerator ==
    WF_vars(CompleteTrial(LowLoops, {Half}, {Half}, {ToDouble(-50), ToDouble(50)}))

SpecLoop ==
    /\ InitWith({5}, {42}, {1, 2}, XYModes, ZModes)
    /\ [][NextLoop]_vars
    /\ FairGenerator

\* SpecInterval: the interval is changed between the calls, to 0 and back
MaxTicksInterval == 6

NextInterval ==
    \/ DoInitialize
    \/ \E f \in 0 .. 3 : SetFrequency(f)
    \/ ticks < MaxTicksInterval /\ NoOpTick
    \/ ticks < MaxTicksInterval
       /\ DoTrial({<<Zero>>}, {Half}, {Half}, {ToDouble(-50)})

SpecInterval ==
    InitWith({5}, {42}, 0 .. 3, {"XYIsotropic"}, {"ZFixed"}) /\ [][NextInterval]_vars

(***************************************************************************)
(* the claims                                                              *)
(***************************************************************************)
Initialized == kernel # "none"
\* the step is an updateContextState call
IsTick == ticks' = ticks + 1
Completed(l) == l.result \in {"accepted", "rejected"}
\* w <= 0 as the C++ comparison reads it (false for a NaN)
NonPositive(a) == ~IsNaN(a) /\ ~Gt(a, Zero)
Has(calls, name) == \E i \in 1 .. Len(calls) : calls[i] = name

\* C1: a call that runs a trial and rejects it returns with the box vectors
\* and the particle coordinates it found when it began.
C1_RejectionRestores ==
    [][(IsTick /\ last'.result = "rejected")
        => (box' = box /\ positions' = positions)]_vars

\* a rejected trial that had changed the volume and scaled the coordinates
C1_Witness ==
    /\ last.result = "rejected"
    /\ last.deltaVolume # Zero
    /\ Has(last.calls, "restoreCoordinates")
    /\ ScaleCoordinates(positions, last.lengthScale) # positions

\* C2: after initialize and after any calls, numAccepted[i] <= numAttempted[i]
\* on every axis.
C2_AcceptedAtMostAttempted ==
    Initialized => \A i \in Axes : numAccepted[i] <= numAttempted[i]

\* a shrink of one axis while another axis has some but not all of its
\* attempts accepted
C2_Witness ==
    /\ last.tuned = "shrink"
    /\ \E i \in Axes \ {last.axis} :
        0 < numAccepted[i] /\ numAccepted[i] < numAttempted[i]

\* C3: from initialize on a box of positive volume, volumeScale[i] > 0 on
\* every axis in every reachable state.
C3_ScalePositive == Initialized => \A i \in Axes : Gt(volumeScale[i], Zero)

\* C4: from a box of positive volume, the volume of the box committed to the
\* context is > 0 after every call.
C4_VolumePositive == Initialized => Gt(Volume(box), Zero)

\* C5: a trial whose weight w is <= 0 is accepted whatever the acceptance
\* variate would be: numAccepted[axis] is incremented, the scaled box stays,
\* restoreCoordinates is not called and no acceptance variate is drawn.
C5_AcceptsNonPositiveWeight ==
    [][(IsTick /\ Completed(last') /\ NonPositive(last'.w))
        => /\ last'.result = "accepted"
           /\ last'.tuned = "none"
                => numAccepted'[last'.axis] = numAccepted[last'.axis] + 1
           /\ box' = [i \in Axes |-> Mul(box[i], last'.lengthScale[i])]
           /\ ~Has(last'.calls, "restoreCoordinates")
           /\ last'.variates = last'.axisDraws + 1]_vars

\* an accepted trial of negative weight that changed the box
C5_Witness ==
    /\ last.result = "accepted"
    /\ NonPositive(last.w) /\ Lt(last.w, Zero)
    /\ last.deltaVolume # Zero

\* C6: with the interval 0, no call changes the box vectors, the counters,
\* volumeScale or the generator, and none calls the kernel.
C6_ZeroIntervalChangesNothing ==
    [][(IsTick /\ frequency = 0)
        => /\ UNCHANGED <<box, positions, saved, volumeScale, numAttempted,
                          numAccepted, random>>
           /\ last'.calls = <<>>]_vars

\* a second call in a row with the interval 0, after a trial had run
C6_Witness ==
    /\ frequency = 0
    /\ last.result = "noop"
    /\ step >= 1
    /\ random.count > 0

\* C7: with a constant interval F >= 1 and the step counter starting at 0,
\* the k-th call runs a trial iff k is a multiple of F; any other call only
\* increments the step counter; a call that runs a trial resets the step
\* counter to 0 and runs one trial.
C7_TrialEveryFthCall ==
    [][(IsTick /\ frequency >= 1)
        => IF ticks' % frequency = 0
           THEN /\ trials' = trials + 1
                /\ step' = 0
                /\ last'.result # "noop"
           ELSE /\ trials' = trials
                /\ step' = step + 1
                /\ last'.result = "noop"
                /\ UNCHANGED <<tuning, random, context>>]_vars

\* the sixth call with the interval 3: the second trial
C7_Witness ==
    /\ frequency = 3
    /\ ticks = 6
    /\ trials = 2
    /\ step = 0
    /\ last.result # "noop"

\* C8: a failure raised in the middle of a trial reaches the caller only
\* after the pre-trial coordinates and box vectors were restored.
C8_FailureRollsBack ==
    [][(IsTick /\ last'.result = "threw")
        => (box' = box /\ positions' = positions)]_vars

\* C9: a trial whose proposed volume is zero or negative, or whose energy is
\* not finite, is not accepted.
C9_DegeneracyRollsBack ==
    (Completed(last) /\ (~Gt(last.newVolume, Zero) \/ ~IsFin(last.energy)))
        => last.result = "rejected"

\* C10: when the 10th trial of a batch on an axis leaves fewer than 25% of
\* the batch accepted, volumeScale[axis] becomes its pre-batch value divided
\* by 1.1 and both counters of the axis become 0; the other axes keep their
\* amplitudes and counters.  (No trial before the 10th changes the amplitude,
\* so the value before the 10th trial is the pre-batch value.)
C10_ShrinkTuning ==
    [][(IsTick /\ Completed(last'))
        => LET a   == last'.axis
               acc == numAccepted[a] + (IF last'.result = "accepted" THEN 1 ELSE 0)
           IN  /\ numAttempted[a] < TuneEvery - 1 => volumeScale'[a] = volumeScale[a]
               /\ (numAttempted[a] = TuneEvery - 1 /\ 4 * acc < TuneEvery)
                    => /\ volumeScale'[a] = Div(volumeScale[a], OnePointOne)
                       /\ numAttempted'[a] = 0
                       /\ numAccepted'[a] = 0
                       /\ \A j \in Axes \ {a} :
                            /\ volumeScale'[j] = volumeScale[j]
                            /\ numAttempted'[j] = numAttempted[j]
                            /\ numAccepted'[j] = numAccepted[j]]_vars

\* a shrink of the initial amplitude at the 10th trial of a batch, while
\* another axis has counted attempts of its own
C10_Witness ==
    /\ last.tuned = "shrink"
    /\ numAttempted[last.axis] = 0
    /\ volumeScale[last.axis] = Div(Mul(OneHundredth, Volume(box)), OnePointOne)
    /\ \E j \in Axes \ {last.axis} : numAttempted[j] > 0

\* C11: a tuning check that finds more than 75% accepted sets both counters
\* of the axis to 0 and volumeScale[axis] to min(1.1 x old, 30% of the
\* current volume), the current volume being the volume of the box after the
\* trial when it was accepted (newVolume) and the attempted new volume when
\* it was rejected (newVolume again); so volumeScale[axis] <= 0.3 x that
\* volume right after the adjustment.
C11_GrowthCap ==
    [][(IsTick /\ last'.tuned = "grow")
        => LET a   == last'.axis
               cap == Mul(last'.newVolume, ThreeTenths)
           IN  /\ numAttempted'[a] = 0
               /\ numAccepted'[a] = 0
               /\ volumeScale'[a] = Min(Mul(volumeScale[a], OnePointOne), cap)
               /\ ~Gt(volumeScale'[a], cap)]_vars

\* C12: volumeScale[axis] changes, or the counters of the axis are reset,
\* only on a trial that brings numAttempted[axis] to a multiple of 10; after
\* a ratio between 25% and 75% at attempt 10, the trials 11..19 adjust
\* nothing.  No trial changes the amplitude or the counters of another axis.
C12_TuningOnlyAtMultiplesOfTen ==
    [][(IsTick /\ Completed(last'))
        => LET a == last'.axis
           IN  /\ (volumeScale'[a] # volumeScale[a] \/ last'.tuned # "none")
                    => (numAttempted[a] + 1) % TuneEvery = 0
               /\ \A j \in Axes \ {a} :
                    /\ volumeScale'[j] = volumeScale[j]
                    /\ numAttempted'[j] = numAttempted[j]
                    /\ numAccepted'[j] = numAccepted[j]]_vars

\* C13: the trial axis is 2 only if the Z mode is ZFree and 1 only if the XY
\* mode is not XYIsotropic; so no call changes numAttempted[1], numAccepted[1]
\* or volumeScale[1] while the XY mode is XYIsotropic, nor numAttempted[2],
\* numAccepted[2] or volumeScale[2] while the Z mode is not ZFree.
C13_AxisRespectsModes ==
    [][IsTick
        => /\ last'.axis = 2 => zMode = "ZFree"
           /\ last'.axis = 1 => xyMode # "XYIsotropic"
           /\ xyMode = "XYIsotropic"
                => /\ numAttempted'[1] = numAttempted[1]
                   /\ numAccepted'[1] = numAccepted[1]
                   /\ volumeScale'[1] = volumeScale[1]
           /\ zMode # "ZFree"
                => /\ numAttempted'[2] = numAttempted[2]
                   /\ numAccepted'[2] = numAccepted[2]
                   /\ volumeScale'[2] = volumeScale[2]]_vars

\* with XYIsotropic and ZFixed, axis 0 was tuned by a trial whose axis loop
\* had drawn again, after a draw that XYAnisotropic would have given to axis 1
C13_Witness ==
    /\ xyMode = "XYIsotropic"
    /\ zMode = "ZFixed"
    /\ last.axis = 0
    /\ last.axisDraws = 2
    /\ last.tuned = "grow"
    /\ random.count > 2 * ticks + 1
    /\ \A j \in {1, 2} : numAttempted[j] = 0 /\ numAccepted[j] = 0

\* two doubles that differ by rounding only: by at most 16 units in the
\* last place (2^-49 of the value)
Magnitude(a) == [a EXCEPT !.neg = FALSE]
SameUpToRounding(a, b) ==
    /\ IsFin(a) /\ IsFin(b)
    /\ ~Gt(Magnitude(Sub(a, b)), Mul(Magnitude(a), Plus(Two24, 0, -101)))

\* C14: with the Z mode ConstantVolume every trial uses
\* lengthScale[2] = 1/(lengthScale[0]*lengthScale[1]), so the three scales
\* multiply to 1 and the volume of the box after the call is the volume
\* before it, up to rounding, whether the trial is accepted or rejected; the
\* weight is computed with a volume change of 0 (no pressure term, no
\* logarithm term), and the tuning is given the volume before the trial.
C14_ConstantVolume ==
    [][(IsTick /\ Completed(last') /\ zMode = "ConstantVolume")
        => \A ls \in {last'.lengthScale}, a \in {last'.axis},
              rej \in {last'.result = "rejected"}, volume \in {Volume(box)} :
           \A area \in {Mul(Mul(Mul(box[0], ls[0]), box[1]), ls[1])} :
           \A dA \in {Sub(area, Mul(box[0], box[1]))} :
           \A work \in {Mul(ToInternal(tens), dA) : tens \in Tensions} :
               /\ ls[2] = Div(One, Mul(ls[0], ls[1]))
               /\ SameUpToRounding(One, Mul(Mul(ls[0], ls[1]), ls[2]))
               /\ SameUpToRounding(volume, Volume(box'))
               /\ last'.deltaVolume = Zero
               /\ last'.newVolume = volume
               /\ \E E0 \in InitialEnergies :
                    last'.w = Sub(Sub(last'.energy, E0), work)
               /\ TuningVolume(rej, volume, last'.newVolume) = volume
               /\ volumeScale'[a] =
                    Tune(volumeScale[a], numAttempted[a] + 1,
                         AcceptedAfter(rej, numAccepted[a]), volume).volumeScale]_vars

\* with ConstantVolume, an accepted trial that shrank x and y and stretched
\* z, at which axis 0 was tuned
C14_Witness ==
    /\ zMode = "ConstantVolume"
    /\ last.result = "accepted"
    /\ xyMode = "XYIsotropic"
    /\ Lt(last.lengthScale[0], One) /\ Lt(last.lengthScale[1], One)
    /\ Gt(last.lengthScale[2], One)
    /\ Gt(box[2], box[0])
    /\ last.tuned = "grow"

\* C15: the platform is asked for the kernel once, by initialize; no
\* updateContextState call, whatever it does, asks again; scaleCoordinates
\* and restoreCoordinates go to the kernel initialize obtained.
C15_KernelCreatedOnce ==
    [][/\ IsTick
          => /\ created' = created
             /\ kernel' = kernel
             /\ ~Has(last'.calls, "createKernel")
             /\ (Has(last'.calls, "scaleCoordinates")
                 \/ Has(last'.calls, "restoreCoordinates"))
                  => kernel = "ApplyMonteCarloBarostat" /\ created = 1
       /\ (~IsTick /\ (created' # created \/ kernel' # kernel))
          => /\ kernel = "none" /\ created = 0
             /\ kernel' = "ApplyMonteCarloBarostat" /\ created' = 1]_vars

\* after a no-op call, an accepted trial and a rejected trial, the kernel
\* is the one initialize obtained
C15_Witness ==
    /\ created = 1
    /\ kernel = "ApplyMonteCarloBarostat"
    /\ ticks > trials
    /\ trials >= 2
    /\ last.result = "rejected"
    /\ Has(last.calls, "restoreCoordinates")

\* the step is a call of initialize
IsInitialize == kernel = "none" /\ kernel' # "none"

\* C16: right after initialize, whatever the members held before, every
\* volumeScale[i] is 1% of the volume of the current box and every
\* numAttempted[i] and numAccepted[i] is 0; the generator is seeded with the
\* owner's seed when that is not 0 and with a seed from the operating system
\* when it is 0, so that the owner's 0 is never the generator's seed.
C16_InitializationState ==
    [][IsInitialize
        => /\ \A i \in Axes :
                /\ volumeScale'[i] = Mul(OneHundredth, Volume(box'))
                /\ numAttempted'[i] = 0
                /\ numAccepted'[i] = 0
           /\ seed # 0 => random'.seed = seed
           /\ seed = 0 => random'.seed \in OsSeeds
           /\ random'.seed # 0
           /\ random'.count = 0]_vars

\* initialized with the seed 0 on the other box: the generator has the
\* operating system's seed and the amplitudes are 1% of 2*3*4 nm^3
C16_Witness ==
    /\ Initialized
    /\ ticks = 0
    /\ seed = 0
    /\ random.seed \in OsSeeds
    /\ box \in OtherBoxes
    /\ \A i \in Axes : volumeScale[i] = Mul(OneHundredth, ToDouble(24)) /\ numAttempted[i] = 0

\* the kernel names registered on a platform, and the factories behind them
RegisteredNames(platform) == {e.name : e \in {x \in registry : x.platform = platform}}
Factories == {e.factory : e \in registry}

\* C17: loading the reference Drude module registers one factory on the
\* platform "Reference" for the two names CalcDrudeForce and
\* IntegrateDrudeLangevinStep and for no other; the factory creates a kernel
\* for each of the two names, and a request by any other name fails with an
\* error and creates no kernel.
C17_DrudeKernelDispatch ==
    [][/\ registry' # registry
          => /\ RegisteredNames("Reference")' = {"CalcDrudeForce", "IntegrateDrudeLangevinStep"}
             /\ \A e \in registry' : e.platform = "Reference"
             /\ Cardinality(registry') = 2
             /\ Cardinality(Factories') = 1
       /\ (dispatch' # dispatch \/ drudeKernels' # drudeKernels)
          => IF dispatch'.name \in RegisteredNames("Reference")
             THEN /\ dispatch'.outcome = "kernel"
                  /\ dispatch'.impl =
                        (IF dispatch'.name = "CalcDrudeForce"
                         THEN "ReferenceCalcDrudeForceKernel"
                         ELSE "ReferenceIntegrateDrudeLangevinStepKernel")
                  /\ drudeKernels' =
                        Append(drudeKernels, [name |-> dispatch'.name,
                                              impl |-> dispatch'.impl])
             ELSE /\ dispatch'.outcome = "OpenMMException"
                  /\ dispatch'.impl = "none"
                  /\ drudeKernels' = drudeKernels]_vars

\* both kernels were created, and then a request by the barostat kernel's
\* name failed
C17_Witness ==
    /\ Len(drudeKernels) = 2
    /\ drudeKernels[1].impl # drudeKernels[2].impl
    /\ dispatch.name = "ApplyMonteCarloBarostat"
    /\ dispatch.outcome = "OpenMMException"

\* C18: every call ends.  Under any modes the axis loop has a way out (a
\* draw below 2/3), so with a fair generator a call that has entered the
\* loop leaves it and completes one trial, accepted or rejected.
C18_EveryTickTerminates == (last.result = "drawing") ~> Completed(last)

\* with ZFixed, a trial completed after its axis loop had drawn again
C18_Witness ==
    /\ zMode = "ZFixed"
    /\ Completed(last)
    /\ last.axisDraws >= 2
    /\ ticks >= 2

\* where a call appears among the calls of a tick
Places(calls, name) == {i \in 1 .. Len(calls) : calls[i] = name}
Before(P, Q) == \A i \in P, j \in Q : i < j

\* C19: in a trial scaleCoordinates is called once, before the new box is
\* committed and before the second energy is read; restoreCoordinates is
\* called at most once, after scaleCoordinates, and exactly when the trial
\* is rejected; the box is written once on acceptance (the new box) and
\* twice on rejection (the new box, then the old one); a no-op call makes
\* none of these calls.  (A call that an exception ends makes a first part
\* of these calls, in the same order.)
C19_OrderOfEffects ==
    [][IsTick
        => \A scale \in {Places(last'.calls, "scaleCoordinates")},
              restore \in {Places(last'.calls, "restoreCoordinates")},
              write \in {Places(last'.calls, "setPeriodicBoxVectors")},
              read \in {Places(last'.calls, "getState")} :
             /\ last'.result = "noop" => last'.calls = <<>>
             /\ last'.result # "noop"
                  => /\ Cardinality(scale) <= 1
                     /\ Before(scale, write)
                     /\ Before(scale, read \ {1})
                     /\ Cardinality(restore) <= 1
                     /\ Before(scale, restore)
                     /\ restore # {} => scale # {}
             /\ Completed(last')
                  => /\ Cardinality(scale) = 1
                     /\ restore # {} <=> last'.result = "rejected"
             /\ last'.result = "accepted"
                  => /\ Cardinality(write) = 1 /\ Cardinality(read) = 2
                     /\ Before(write, read \ {1})
                     /\ box' = [i \in Axes |-> Mul(box[i], last'.lengthScale[i])]
             /\ last'.result = "rejected"
                  => /\ Cardinality(write) = 2 /\ Cardinality(read) = 2
                     /\ \E first \in write, second \in write :
                          /\ Before({first}, read \ {1})
                          /\ Before(read, {second})
                          /\ Before(restore, {second})
                     /\ box' = box]_vars

\* a rejected trial with its six calls, after it had scaled the box
C19_Witness ==
    /\ last.result = "rejected"
    /\ Len(last.calls) = 6
    /\ last.lengthScale[0] # One

\* C20: the interval is read at every call: a call runs a trial iff the
\* interval at that call is not 0 and the step counter after its increment
\* has reached it.  So after a call made with an interval F > 0 the step
\* counter is in 0 .. F-1, a call made with the interval 0 increments the
\* step counter, and a new interval counts from the next call on.
C20_IntervalReadAfresh ==
    [][IsTick
        => /\ last'.result # "noop" <=> (frequency # 0 /\ step + 1 >= frequency)
           /\ trials' = trials + (IF frequency # 0 /\ step + 1 >= frequency THEN 1 ELSE 0)
           /\ frequency > 0 => 0 <= step' /\ step' < frequency
           /\ frequency = 0 => step' = step + 1]_vars

\* three calls with the interval 0, then the interval 2: the fourth call
\* ran a trial at once
C20_Witness ==
    /\ frequency = 2
    /\ ticks = 4
    /\ trials = 1
    /\ step = 0
    /\ last.result = "accepted"

====
